---- MODULE Spec2Model ----
(***************************************************************************)
(* Model of the PDF viewer plugin: the render scheduler                    *)
(* (PDFViewerComponent, src/pdf-viewer.ts lines 350-856) and the session   *)
(* controller (ExampleView.onOpen handlers, src/unnamed/part_001).         *)
(*                                                                         *)
(* JavaScript runs one task at a time, so every action below is the code   *)
(* that runs from one resumption point (an event, or the completion of an  *)
(* awaited promise) up to the next await, continuations that are chained   *)
(* by already-settled promises included.                                   *)
(*                                                                         *)
(* Scales are counted in quarters (6 = 1.5 = 150%).  A page box is a pair   *)
(* of exact fractions <<numerator, denominator>>.                          *)
(***************************************************************************)
EXTENDS Integers, Sequences, FiniteSets, TLC

\* ---- bounds of the model ----
MaxLoads == 2
MaxZooms == 1
MaxReadyZooms == 2
NumPages == 2
MaxFail == 1
MaxPreviewZooms == 2
PoolPages == 4
MaxMarkerZooms == 1
MaxPoolZooms == 1
MaxComments == 2
MaxInlineSaves == 2
MaxCandidates == 2
MaxBodyLen == 4
MaxNoteLen == 24

\* ---- program constants (in quarters) ----
InitialScale == 6
ZoomStep == 1
MinScale == 2
MaxScale == 12
WorkerLimit == 2
SliceLen == 2

Viewers == 1..MaxLoads
Pages == 1..NumPages

VARIABLES
    \* ExampleView (session controller)
    pdfViewer,            \* this.pdfViewer: 0 is null, else the viewer's id
    isLoadingPdf,         \* closure flag of onOpen
    isZooming,            \* closure flag of onOpen
    zoomEnabled,          \* ~zoomInBtn.disabled (both buttons are set together)
    loadH,                \* load-button handler i: where it is suspended
    closed,               \* onClose has run
    \* DOM below this.pdfContainer
    container,            \* children of pdfContainer: scroll containers (by creating viewer)
    scKids,               \* children of each scroll container: page containers
    els,                  \* page container elements: box, child nodes and the
                          \* rectangles drawn in the highlight layer
    commentsTrack,        \* this.commentsTrack: the markers, in document order
    \* PDFViewerComponent instances (viewer i is created by load handler i)
    pdfDoc,               \* this.pdfDoc # null
    docState,             \* the PDFDocumentProxy a viewer obtained: "none", "open", "destroyed"
    currentScale,
    renderGeneration,
    pageContainers,       \* Map<number, HTMLElement>
    inFlightRenderTasks,  \* Map<number, RenderTask>
    backgroundRenderGen,
    destroyedAt,          \* history: the generation destroy() left, -1 before any destroy
    previewScale,         \* this.previewScale: 0 is null
    transform,            \* style.transform of each scroll container: NoTransform is ''
    loadP,                \* loadPdf of each viewer: where it is suspended
    zooms,                \* one record per zoom click: the setScale call it made
    zoomsLeft,            \* zoom clicks the user still makes
    nFail,                \* failures injected so far
    \* ExampleView (annotation store)
    currentPdfPath,           \* 0 is null, else the document's number
    currentPdfCommentsFolder, \* 0 is null, else the folder's number
    annotations,              \* this.annotations
    sidecarOf,                \* the document whose sidecar a load handler's
                              \* loadAnnotationsForCurrentPdf reads (837): 0 before
    selectedAnnotationId,     \* 0 is null
    pendingNoteCreation,      \* Map<id, Promise>: the closure whose promise is stored
    vault,                    \* the files the store works on: the sidecar of the
                              \* open document, the notes folders, the note files
    vaultOps,                 \* vault calls that have not settled yet, oldest first
    loadA,                    \* loadAnnotationsForCurrentPdf: where it is suspended
    comment,                  \* handleCommentAction call of each new annotation
    noteJob,                  \* the note-creation closures (978-985, 575-583)
    inlineSave,               \* doSave calls of the inline editor (559-622)
    \* the text of a backing note and of the inline editor that shows it
    noteFile,                 \* content of the note file of the annotation
    textarea                  \* the inline editor (520-625): dataset.fm,
                              \* dataset.quote, value, activeInlineDirty

ctlVars == <<pdfViewer, isLoadingPdf, isZooming, zoomEnabled, loadH, closed>>
domVars == <<container, scKids, els, commentsTrack>>
viewVars == <<pdfDoc, docState, currentScale, renderGeneration, pageContainers,
              inFlightRenderTasks, backgroundRenderGen, destroyedAt,
              previewScale, transform>>
zoomVars == <<zooms, zoomsLeft>>
storeVars == <<currentPdfPath, currentPdfCommentsFolder, annotations, sidecarOf>>
textVars == <<noteFile, textarea>>
noteVars == <<selectedAnnotationId, pendingNoteCreation, vault, vaultOps, loadA,
              comment, noteJob, inlineSave, textVars>>
vars == <<ctlVars, domVars, viewVars, loadP, zoomVars, nFail, storeVars, noteVars>>

\* ---------------------------------------------------------------------
\* Values
\* ---------------------------------------------------------------------
NoEl == <<0, 0, 0>>
NoTask == <<0, "", 0>>
NoTransform == <<0, 0>>
NoPath == 0
HlNode == [t |-> "hl", v |-> 0, g |-> 0, k |-> "", s |-> 0]
Node(t, v, g, k, s) == [t |-> t, v |-> v, g |-> g, k |-> k, s |-> s]

RECURSIVE Gcd(_, _)
Gcd(a, b) == IF b = 0 THEN a ELSE Gcd(b, a % b)
Frac(n, d) == LET g == Gcd(n, d) IN <<n \div g, d \div g>>
FracMul(f, n, d) == Frac(f[1] * n, f[2] * d)

\* createCommentNote (762-764): the note of annotation id in notes folder f
NotePathOf(f, id) == 100 * f + id

\* PdfAnnotation: notePath is NoPath when the annotation has none; yNorm and
\* the sides of a rectangle are exact fractions
Annotation(id, notePath, pageNumber, yNorm, highlights) ==
    [id |-> id, notePath |-> notePath,
     anchor |-> [pageNumber |-> pageNumber, yNorm |-> yNorm],
     highlights |-> highlights]
NormalizedRect(x, y, w, h) == [x |-> x, y |-> y, w |-> w, h |-> h]
\* an annotation of document d as an earlier session stored it
StoredAnn(d) ==
    Annotation(10 * d, NotePathOf(d, 10 * d), 1, Frac(1, 2),
               <<[pageNumber |-> 1,
                  rects |-> <<NormalizedRect(Frac(1, 4), Frac(1, 4), Frac(1, 2), Frac(1, 8))>>]>>)

\* page.getViewport({scale}): the rasterizer's box of page p at scale s
PageW(p) == 8 + p
PageH(p) == 11 + p
Viewport(p, s) == [width |-> Frac(PageW(p) * s, 1), height |-> Frac(PageH(p) * s, 1)]

Put(f, key, val) == [x \in (DOMAIN f) \cup {key} |-> IF x = key THEN val ELSE f[x]]

RECURSIVE Insert(_, _)
Insert(x, s) ==
    IF s = <<>> THEN <<x>>
    ELSE IF x <= Head(s) THEN <<x>> \o s
    ELSE <<Head(s)>> \o Insert(x, Tail(s))
RECURSIVE SortNums(_)
SortNums(s) == IF s = <<>> THEN <<>> ELSE Insert(Head(s), SortNums(Tail(s)))

Range(s) == {s[i] : i \in DOMAIN s}
RECURSIVE FilterOut(_, _)
FilterOut(s, drop) ==
    IF s = <<>> THEN <<>>
    ELSE IF Head(s) \in drop THEN FilterOut(Tail(s), drop)
    ELSE <<Head(s)>> \o FilterOut(Tail(s), drop)
Take(s, n) == SubSeq(s, 1, IF Len(s) < n THEN Len(s) ELSE n)
Min2(a, b) == IF a < b THEN a ELSE b
Max2(a, b) == IF a > b THEN a ELSE b

\* ---------------------------------------------------------------------
\* DOM queries and updates (pure: they take and return DOM values)
\* ---------------------------------------------------------------------
\* container.querySelector('.pdf-scroll-container'): the first one, 0 when none
getScrollContainer(cont) == IF cont = <<>> THEN 0 ELSE Head(cont)

PageOf(e) == e[3]
PageNumsOf(kids) == [i \in DOMAIN kids |-> PageOf(kids[i])]

\* sc.querySelector('.pdf-page-container[data-page-number="p"]')
RECURSIVE FirstWithPage(_, _)
FirstWithPage(kids, p) ==
    IF kids = <<>> THEN NoEl
    ELSE IF PageOf(Head(kids)) = p THEN Head(kids)
    ELSE FirstWithPage(Tail(kids), p)

getOrderedPageNumbersFromDom(cont, sck) ==
    LET sc == getScrollContainer(cont)
    IN IF sc = 0 THEN <<>> ELSE SortNums(PageNumsOf(sck[sc]))

\* getVisiblePageNumbers: the page containers that meet the viewport plus
\* buffer.  Pages are stacked vertically, so they are a run of consecutive
\* children of the scroll container (possibly none); the scroll position is
\* the environment's choice.
VisibleChoices(cont, sck) ==
    LET sc == getScrollContainer(cont)
        kids == IF sc = 0 THEN <<>> ELSE sck[sc]
    IN {<<>>} \cup
       {SortNums(PageNumsOf(SubSeq(kids, a, b))) :
            a \in 1..Len(kids), b \in 1..Len(kids)}

HasHl(el) == \E i \in DOMAIN el.kids : el.kids[i].t = "hl"
NodesOf(el, t) == {el.kids[i] : i \in {j \in DOMAIN el.kids : el.kids[j].t = t}}

RECURSIVE RemoveNodes(_, _)
RemoveNodes(kids, drop) ==
    IF kids = <<>> THEN <<>>
    ELSE IF Head(kids) \in drop THEN RemoveNodes(Tail(kids), drop)
    ELSE <<Head(kids)>> \o RemoveNodes(Tail(kids), drop)

RECURSIVE InsertBeforeHl(_, _)
InsertBeforeHl(kids, n) ==
    IF kids = <<>> THEN <<n>>
    ELSE IF Head(kids).t = "hl" THEN <<n>> \o kids
    ELSE <<Head(kids)>> \o InsertBeforeHl(Tail(kids), n)

\* The swap of renderPageIntoContainer: old nodes removed, the new node put
\* before the highlight layer captured earlier, or appended when none was.
SwapIn(el, old, n, hlCaptured) ==
    LET rest == RemoveNodes(el.kids, old)
    IN [el EXCEPT !.kids = IF hlCaptured THEN InsertBeforeHl(rest, n)
                           ELSE Append(rest, n)]

\* every page container below pdfContainer, in document order
RECURSIVE AttachedEls(_, _)
AttachedEls(cont, sck) ==
    IF cont = <<>> THEN <<>>
    ELSE sck[Head(cont)] \o AttachedEls(Tail(cont), sck)

\* pageEl.offsetWidth, pageEl.offsetHeight: the box rounded to whole pixels
\* (the page containers have no border, so clientWidth is the same)
Round(f) == (2 * f[1] + f[2]) \div (2 * f[2])
offsetWidth(el) == Round(el.w)
offsetHeight(el) == Round(el.h)

\* pageEl.offsetTop of the i-th page container below pdfContainer: the page
\* containers are stacked from the top of the scrolled content
RECURSIVE HeightAbove(_, _, _)
HeightAbove(att, e, i) ==
    IF i <= 1 THEN 0 ELSE HeightAbove(att, e, i - 1) + offsetHeight(e[att[i - 1]])

offsetTop(cont, sck, e, x) ==
    LET att == AttachedEls(cont, sck)
    IN HeightAbove(att, e, CHOOSE i \in DOMAIN att : att[i] = x)

\* pdfContainer.querySelector('.pdf-page-container[data-page-number="p"]')
PageElOf(cont, sck, p) == FirstWithPage(AttachedEls(cont, sck), p)

\* the rectangle of lines 678-682: r scaled by the page box
HighlightRect(r, pageW, pageH) ==
    [left |-> FracMul(r.x, pageW, 1), top |-> FracMul(r.y, pageH, 1),
     width |-> FracMul(r.w, pageW, 1), height |-> FracMul(r.h, pageH, 1)]

\* the rectangles that the highlights prs draw into the layer of x (662-684)
RECURSIVE RectsInto(_, _, _, _, _)
RectsInto(prs, x, cont, sck, e) ==
    IF prs = <<>> THEN <<>>
    ELSE LET pr == Head(prs)
             pageW == offsetWidth(e[x])
             pageH == offsetHeight(e[x])
             here == /\ PageElOf(cont, sck, pr.pageNumber) = x
                     /\ pageW # 0
                     /\ pageH # 0
         IN (IF here THEN [i \in DOMAIN pr.rects |-> HighlightRect(pr.rects[i], pageW, pageH)]
             ELSE <<>>)
            \o RectsInto(Tail(prs), x, cont, sck, e)

\* all highlights of the annotations, in the order of the list
RECURSIVE HighlightsOf(_)
HighlightsOf(anns) ==
    IF anns = <<>> THEN <<>> ELSE Head(anns).highlights \o HighlightsOf(Tail(anns))

\* A faulty renderHighlights that does not empty the layers (no
\* `layer.empty()` at line 659): C22 fails with it.
renderHighlightsOnTop(cont, sck, e, anns) ==
    LET att == Range(AttachedEls(cont, sck))
    IN [x \in DOMAIN e |->
          IF x \in att
          THEN [e[x] EXCEPT !.kids = IF HasHl(e[x]) THEN @ ELSE Append(@, HlNode),
                            !.rects = @ \o RectsInto(HighlightsOf(anns), x, cont, sck, e)]
          ELSE e[x]]

\* ExampleView.renderHighlights (650-686): every page container below
\* pdfContainer gets a highlight layer as last child if it has none, the
\* layer is emptied, and the rectangles of the annotations are drawn into
\* the layer of the first page container with their page number.
renderHighlights(cont, sck, e, anns) ==
    LET att == Range(AttachedEls(cont, sck))
    IN [x \in DOMAIN e |->
          IF x \in att
          THEN [e[x] EXCEPT !.kids = IF HasHl(e[x]) THEN @ ELSE Append(@, HlNode),
                            !.rects = RectsInto(HighlightsOf(anns), x, cont, sck, e)]
          ELSE e[x]]

\* A faulty variant of line 505 that places the marker by the height the
\* page had at the initial scale: C21 fails with it.
MarkerTopAtInitialScale(cont, sck, e, x, yNorm) ==
    LET rel == FracMul(yNorm, Round(Viewport(PageOf(x), InitialScale).height), 1)
    IN Frac(offsetTop(cont, sck, e, x) * rel[2] + rel[1], rel[2])

\* the top of the marker of an annotation anchored at yNorm of page element
\* x (505)
MarkerTop(cont, sck, e, x, yNorm) ==
    LET rel == FracMul(yNorm, offsetHeight(e[x]), 1)
    IN Frac(offsetTop(cont, sck, e, x) * rel[2] + rel[1], rel[2])

\* ExampleView.renderCommentMarkers (495-647): the track is emptied and gets
\* one marker for every annotation whose page has a page container
RECURSIVE renderCommentMarkers(_, _, _, _, _)
renderCommentMarkers(cont, sck, e, anns, sel) ==
    IF anns = <<>> THEN <<>>
    ELSE LET a == Head(anns)
             pageEl == PageElOf(cont, sck, a.anchor.pageNumber)
         IN (IF pageEl = NoEl THEN <<>>
             ELSE <<[annotationId |-> a.id,
                     top |-> MarkerTop(cont, sck, e, pageEl, a.anchor.yNorm),
                     isSelected |-> a.id = sel]>>)
            \o renderCommentMarkers(cont, sck, e, Tail(anns), sel)

\* scaleExistingPageBoxSizes(scale / prevScale)
scaleExistingPageBoxSizes(cont, sck, e, scale, prevScale) ==
    LET sc == getScrollContainer(cont)
        kids == IF sc = 0 THEN {} ELSE Range(sck[sc])
    IN [x \in DOMAIN e |->
          IF x \in kids
          THEN [e[x] EXCEPT !.w = FracMul(@, scale, prevScale),
                            !.h = FracMul(@, scale, prevScale)]
          ELSE e[x]]

\* ---------------------------------------------------------------------
\* Initial state: the view has been opened, no document loaded
\* ---------------------------------------------------------------------
\* ---------------------------------------------------------------------
\* Annotation store: values
\* ---------------------------------------------------------------------
CommentIds == 1..MaxComments          \* ids of the annotations a session creates
Origins == {"create", "save"}         \* closure of 978-985, closure of 575-583

\* a file of the vault as JSON.parse sees it (849-850)
NoSidecar == [kind |-> "absent", version |-> 0, pdfPath |-> 0, isArray |-> FALSE,
              annotations |-> <<>>]
\* a payload that holds the newest annotation only
PayloadOfLast(path, anns) ==
    [kind |-> "json", version |-> 1, pdfPath |-> path, isArray |-> TRUE,
     annotations |-> IF anns = <<>> THEN <<>> ELSE <<anns[Len(anns)]>>]

\* saveAnnotationsForCurrentPdf, 882-887: the payload that is serialized
Payload(path, anns) == [kind |-> "json", version |-> 1, pdfPath |-> path,
                        isArray |-> TRUE, annotations |-> anns]

\* no inline editor is rendered: no annotation is selected
NoEditor == [open |-> FALSE, selectedText |-> <<>>, fm |-> <<>>, quote |-> <<>>,
             value |-> <<>>, reading |-> FALSE, loaded |-> FALSE, dirty |-> FALSE,
             saving |-> FALSE, next |-> <<>>]

\* no note text is followed
NoText == noteFile = <<>> /\ textarea = NoEditor

IdleLoadA == [pc |-> "idle", i |-> 0, migrated |-> FALSE, writes |-> 0, kind |-> "",
              caught |-> FALSE]
\* doc: the document that was open when the closure was started
IdleJob == [pc |-> "none", cand |-> 0, path |-> NoPath, doc |-> 0]
IdleSave == [pc |-> "none", a |-> 0, on |-> ""]

\* the store of a session that has loaded its annotations and does nothing
\* ensurePerPdfFolder (741-754): the candidates base, base_1, ... of
\* document d are the folders FirstCandidate(d) .. FirstCandidate(d) +
\* MaxCandidates - 1
FirstCandidate(d) == (d - 1) * MaxCandidates + 1
Folders == 1..(MaxLoads * MaxCandidates)

\* getAnnotationsPathForPdf: the sidecar file of document d in the vault v
SidecarOfDoc(v, d) == IF d = 1 THEN v.sidecar ELSE v.others[d]

EmptyVault == [sidecar |-> NoSidecar, others |-> [d \in Viewers \ {1} |-> NoSidecar],
               paths |-> [c \in Folders |-> "none"], notes |-> {}, edited |-> {}]

StoreAtRestOn(v) ==
    /\ selectedAnnotationId = 0
    /\ pendingNoteCreation = [a \in CommentIds |-> "none"]
    /\ vault = v
    /\ vaultOps = <<>>
    /\ loadA = IdleLoadA
    /\ comment = [a \in CommentIds |-> "none"]
    /\ noteJob = [a \in CommentIds |-> [o \in Origins |-> IdleJob]]
    /\ inlineSave = [n \in 1..MaxInlineSaves |-> IdleSave]

StoreAtRest == StoreAtRestOn(EmptyVault)

IdleWorker == [pc |-> "idle", page |-> 0, el |-> NoEl, scale |-> 0, hl |-> FALSE,
               oldC |-> {}, oldT |-> {}, task |-> NoTask, err |-> ""]
DoneWorker == [IdleWorker EXCEPT !.pc = "done"]
NoLoad == [pc |-> "none", page |-> 0, scale |-> 0, err |-> ""]

Init ==
    /\ pdfViewer = 0
    /\ isLoadingPdf = FALSE
    /\ isZooming = FALSE
    /\ zoomEnabled = FALSE
    /\ loadH = [i \in Viewers |-> "idle"]
    /\ closed = FALSE
    /\ container = <<>>
    /\ scKids = [v \in Viewers |-> <<>>]
    /\ els = [x \in {} |-> 0]
    /\ commentsTrack = <<>>
    /\ pdfDoc = [v \in Viewers |-> FALSE]
    /\ docState = [v \in Viewers |-> "none"]
    /\ currentScale = [v \in Viewers |-> InitialScale]
    /\ renderGeneration = [v \in Viewers |-> 0]
    /\ pageContainers = [v \in Viewers |-> [p \in Pages |-> NoEl]]
    /\ inFlightRenderTasks = [v \in Viewers |-> [p \in Pages |-> NoTask]]
    /\ backgroundRenderGen = [v \in Viewers |-> -1]
    /\ destroyedAt = [v \in Viewers |-> -1]
    /\ previewScale = [v \in Viewers |-> 0]
    /\ transform = [v \in Viewers |-> NoTransform]
    /\ loadP = [v \in Viewers |-> NoLoad]
    /\ zooms = <<>>
    /\ zoomsLeft = MaxZooms
    /\ nFail = 0
    /\ currentPdfPath = 0
    /\ currentPdfCommentsFolder = 0
    /\ annotations = <<>>
    /\ sidecarOf = [i \in Viewers |-> 0]
    /\ StoreAtRest
    /\ NoText

CanFail == nFail < MaxFail
Fail == CanFail /\ nFail' = nFail + 1
NoFail == UNCHANGED nFail

SetDom(c, s, e) == container' = c /\ scKids' = s /\ els' = e /\ UNCHANGED commentsTrack

\* `this.renderCommentMarkers(); this.renderHighlights();` on the DOM c, s, e
\* with the annotation list anns and the selected annotation sel
Refresh(c, s, e, anns, sel) ==
    /\ container' = c
    /\ scKids' = s
    /\ els' = renderHighlights(c, s, e, anns)
    /\ commentsTrack' = renderCommentMarkers(c, s, e, anns, sel)

\* ---------------------------------------------------------------------
\* PDFViewerComponent.destroy()
\* ---------------------------------------------------------------------
\* a cancelInFlightRenders that forgets to clear the map
KeepInFlight(m) == m

\* cancelInFlightRenders: every task is asked to cancel (a cancelled render
\* rejects or, if it cannot be cancelled, completes: both outcomes are steps
\* of the render below) and the map is cleared.
cancelInFlightRenders(m) == [p \in DOMAIN m |-> NoTask]

\* the viewers whose destroy() has returned
destroyed == {v \in Viewers : destroyedAt[v] >= 0}

\* clearPreviewScale (588-594): the transform is removed from the first
\* scroll container below this.container, if there is one
clearPreviewScale(v) ==
    /\ previewScale' = [previewScale EXCEPT ![v] = 0]
    /\ transform' = IF getScrollContainer(container) = 0 THEN transform
                    ELSE [transform EXCEPT ![getScrollContainer(container)] = NoTransform]

destroy(v) ==
    /\ clearPreviewScale(v)
    /\ renderGeneration' = [renderGeneration EXCEPT ![v] = @ + 1]
    /\ inFlightRenderTasks' =
           [inFlightRenderTasks EXCEPT ![v] = cancelInFlightRenders(@)]
    /\ docState' = [docState EXCEPT ![v] = IF pdfDoc[v] THEN "destroyed" ELSE @]
    /\ pdfDoc' = [pdfDoc EXCEPT ![v] = FALSE]
    /\ pageContainers' = [pageContainers EXCEPT ![v] = [p \in Pages |-> NoEl]]
    /\ destroyedAt' = [destroyedAt EXCEPT ![v] = renderGeneration[v] + 1]
    /\ UNCHANGED <<currentScale, backgroundRenderGen>>

\* `if (this.pdfViewer) this.pdfViewer.destroy()`
destroyIfAny(v) == IF v = 0 THEN UNCHANGED viewVars ELSE destroy(v)

\* ---------------------------------------------------------------------
\* ExampleView: load button handler (part_001 lines 329-413)
\* ---------------------------------------------------------------------
\* how a load handler ended: "done" after the success message (391),
\* "notPdf" after the message of line 396, "failed" after the catch block
\* has shown the error (400)
HandlerOver == {"done", "notPdf", "failed"}

\* updateZoomButtonsState()
ZoomButtonsEnabled(pv, loading, zooming) == pv # 0 /\ ~loading /\ ~zooming

\* catch (398-405) and finally (406-412) of the load handler; c, s, e is the
\* DOM as the failing step left it
LoadCatch(i, c, s, e) ==
    /\ destroyIfAny(pdfViewer)
    /\ pdfViewer' = 0
    /\ isLoadingPdf' = FALSE
    /\ zoomEnabled' = ZoomButtonsEnabled(0, FALSE, isZooming)
    /\ loadH' = [loadH EXCEPT ![i] = "failed"]
    /\ Refresh(c, s, e, annotations, selectedAnnotationId)
    /\ UNCHANGED <<isZooming, closed>>

\* click with a path that names a PDF file: lines 336-350, up to readBinary
LoadClick(i) ==
    /\ ~closed
    /\ loadH[i] = "idle"
    /\ \A j \in Viewers : j < i => loadH[j] # "idle"
    /\ isLoadingPdf' = TRUE
    /\ zoomEnabled' = ZoomButtonsEnabled(pdfViewer, TRUE, isZooming)
    /\ loadH' = [loadH EXCEPT ![i] = "readBinary"]
    /\ currentPdfPath' = i
    /\ currentPdfCommentsFolder' = 0
    /\ annotations' = <<>>
    /\ selectedAnnotationId' = 0
    /\ UNCHANGED <<sidecarOf, pendingNoteCreation, vault, vaultOps, loadA, comment,
                   noteJob, inlineSave, textVars>>
    /\ Refresh(container, scKids, els, <<>>, 0)
    /\ UNCHANGED <<pdfViewer, isZooming, closed, viewVars, loadP, zoomVars, nFail>>

\* click with a path that is no PDF file: lines 336-349, 395-397, 406-412
LoadClickNotPdf(i) ==
    /\ ~closed
    /\ loadH[i] = "idle"
    /\ \A j \in Viewers : j < i => loadH[j] # "idle"
    /\ isLoadingPdf' = FALSE
    /\ zoomEnabled' = ZoomButtonsEnabled(pdfViewer, FALSE, isZooming)
    /\ loadH' = [loadH EXCEPT ![i] = "notPdf"]
    /\ currentPdfPath' = i
    /\ currentPdfCommentsFolder' = 0
    /\ annotations' = <<>>
    /\ selectedAnnotationId' = 0
    /\ UNCHANGED <<sidecarOf, pendingNoteCreation, vault, vaultOps, loadA, comment,
                   noteJob, inlineSave, textVars>>
    /\ Refresh(container, scKids, els, <<>>, 0)
    /\ UNCHANGED <<pdfViewer, isZooming, closed, viewVars, loadP, zoomVars, nFail>>

\* readBinary settles: lines 350-359 (destroy the previous viewer), or catch
LoadReadBinaryDone(i) ==
    /\ loadH[i] = "readBinary"
    /\ \/ /\ NoFail
          /\ destroyIfAny(pdfViewer)
          /\ loadH' = [loadH EXCEPT ![i] = "mkViewer"]
          /\ UNCHANGED <<pdfViewer, isLoadingPdf, isZooming, zoomEnabled, closed,
                         domVars>>
       \/ /\ Fail
          /\ LoadCatch(i, container, scKids, els)
    /\ UNCHANGED <<loadP, zoomVars>>
    /\ UNCHANGED <<storeVars, noteVars>>

\* getPDFViewerComponent and resolvePdfWorkerSrc settle: lines 359-383, the
\* viewer is created and loadPdf runs up to getDocument (599-615); or the
\* worker source is not resolved (373-375) and the handler catches
LoadMkViewerDone(i) ==
    /\ loadH[i] = "mkViewer"
    /\ \/ /\ NoFail
          /\ pdfViewer' = i
          /\ loadH' = [loadH EXCEPT ![i] = "loadPdf"]
          /\ loadP' = [loadP EXCEPT ![i] = [NoLoad EXCEPT !.pc = "getDocument"]]
          /\ clearPreviewScale(i)
          /\ container' = <<>>
          /\ pageContainers' = [pageContainers EXCEPT ![i] = [p \in Pages |-> NoEl]]
          /\ UNCHANGED <<isLoadingPdf, isZooming, zoomEnabled, closed, scKids, els,
                         commentsTrack, pdfDoc, docState, currentScale, renderGeneration,
                         inFlightRenderTasks, backgroundRenderGen, destroyedAt>>
       \/ /\ Fail
          /\ LoadCatch(i, container, scKids, els)
          /\ UNCHANGED loadP
    /\ UNCHANGED zoomVars
    /\ UNCHANGED <<storeVars, noteVars>>

\* loadPdf rejects: the handler that awaits it catches
LoadReject(v, err, c, s, e) ==
    /\ loadP' = [loadP EXCEPT ![v].pc = "failed", ![v].err = err]
    /\ LoadCatch(v, c, s, e)

\* getDocument settles: lines 615-626 and renderPage up to getPage (637-641)
LoadGetDocumentDone(v) ==
    /\ loadP[v].pc = "getDocument"
    /\ \/ /\ NoFail
          /\ pdfDoc' = [pdfDoc EXCEPT ![v] = TRUE]
          /\ docState' = [docState EXCEPT ![v] = "open"]
          /\ container' = Append(container, v)
          /\ loadP' = [loadP EXCEPT ![v] = [NoLoad EXCEPT !.pc = "getPage", !.page = 1]]
          /\ UNCHANGED <<ctlVars, scKids, els, commentsTrack, currentScale, renderGeneration,
                         pageContainers, inFlightRenderTasks, backgroundRenderGen,
                         destroyedAt, previewScale, transform>>
       \/ /\ Fail
          /\ LoadReject(v, "getDocument", container, scKids, els)
    /\ UNCHANGED zoomVars
    /\ UNCHANGED <<storeVars, noteVars>>

\* renderPage, lines 641-665: the page container is created (not yet in the
\* document) with the box of the viewport at the current scale
NewPageContainer(p, s) ==
    [w |-> Viewport(p, s).width, h |-> Viewport(p, s).height, kids |-> <<>>,
     rects |-> <<>>]

LoadGetPageDone(v) ==
    /\ loadP[v].pc = "getPage"
    /\ \/ /\ NoFail
          /\ LET p == loadP[v].page
                 e == <<v, 0, p>>
             IN /\ els' = Put(els, e, NewPageContainer(p, currentScale[v]))
                /\ pageContainers' = [pageContainers EXCEPT ![v][p] = e]
                /\ loadP' = [loadP EXCEPT ![v].pc = "render",
                                          ![v].scale = currentScale[v]]
          /\ UNCHANGED <<ctlVars, container, scKids, commentsTrack, pdfDoc, docState, currentScale,
                         renderGeneration, inFlightRenderTasks, backgroundRenderGen,
                         destroyedAt, previewScale, transform>>
       \/ /\ Fail
          /\ LoadReject(v, "getPage", container, scKids, els)
    /\ UNCHANGED zoomVars
    /\ UNCHANGED <<storeVars, noteVars>>

\* page.render settles: lines 662-674
LoadRenderDone(v) ==
    /\ loadP[v].pc = "render"
    /\ \/ /\ NoFail
          /\ LET e == <<v, 0, loadP[v].page>>
             IN els' = [els EXCEPT ![e].kids =
                          Append(@, Node("canvas", v, 0, "load", loadP[v].scale))]
          /\ loadP' = [loadP EXCEPT ![v].pc = "textLayer"]
          /\ UNCHANGED <<ctlVars, container, scKids, commentsTrack, viewVars>>
       \/ /\ Fail
          /\ LoadReject(v, "render", container, scKids, els)
    /\ UNCHANGED zoomVars
    /\ UNCHANGED <<storeVars, noteVars>>

\* getTextContent and then renderTextLayer settle (674-678; nothing is read
\* or written between the two awaits, so they are one step): lines 679-680,
\* then the loop of loadPdf (625-627):
\* its condition reads this.pdfDoc.numPages, a TypeError once destroy() has
\* set pdfDoc to null; after the last page loadPdf resolves and the handler
\* goes on to loadAnnotationsForCurrentPdf (385)
LoadTextLayerDone(v) ==
    /\ loadP[v].pc = "textLayer"
    /\ \/ /\ NoFail
          /\ LET p == loadP[v].page
                 e == <<v, 0, p>>
                 e1 == [els EXCEPT ![e].kids =
                          Append(@, Node("text", v, 0, "load", loadP[v].scale))]
                 s1 == [scKids EXCEPT ![v] = Append(@, e)]
             IN IF ~pdfDoc[v]
                THEN LoadReject(v, "destroyed", container, s1, e1)
                ELSE /\ SetDom(container, s1, e1)
                     /\ UNCHANGED <<pdfViewer, isLoadingPdf, isZooming, zoomEnabled,
                                    closed, viewVars>>
                     /\ IF p + 1 <= NumPages
                        THEN /\ loadP' = [loadP EXCEPT ![v] =
                                    [NoLoad EXCEPT !.pc = "getPage", !.page = p + 1]]
                             /\ UNCHANGED loadH
                        ELSE /\ loadP' = [loadP EXCEPT ![v] = [NoLoad EXCEPT !.pc = "done"]]
                             /\ loadH' = [loadH EXCEPT ![v] = "annotations"]
          /\ sidecarOf' = IF ~pdfDoc[v] \/ loadP[v].page + 1 <= NumPages THEN sidecarOf
                          ELSE [sidecarOf EXCEPT ![v] = currentPdfPath]
       \/ /\ Fail
          /\ LoadReject(v, "text", container, scKids, els)
          /\ UNCHANGED sidecarOf
    /\ UNCHANGED <<zoomVars, currentPdfPath, currentPdfCommentsFolder, annotations,
                   noteVars>>

\* What loadAnnotationsForCurrentPdf (836-876) leaves for document d in a
\* session of the load handlers: document 1 comes with a valid sidecar of
\* one annotation, the other documents with none; the notes folder of d
\* either way.  (The function itself is followed step by step, over every
\* content of the vault, by the actions of the annotation store below.)
LoadOutcomes(d) ==
    {[anns |-> IF d = 1 THEN <<StoredAnn(d)>> ELSE <<>>, folder |-> d]}

\* loadAnnotationsForCurrentPdf settles (it catches its own errors): lines
\* 386-394; this.pdfViewer.getPageCount() is a TypeError when another
\* handler has set pdfViewer to null, and the handler catches; then finally
LoadAnnotationsDone(i) ==
    /\ loadH[i] = "annotations"
    /\ loadH' = [loadH EXCEPT ![i] = IF pdfViewer = 0 THEN "failed" ELSE "done"]
    /\ isLoadingPdf' = FALSE
    /\ zoomEnabled' = ZoomButtonsEnabled(pdfViewer, FALSE, isZooming)
    /\ \E o \in LoadOutcomes(sidecarOf[i]) :
          IF currentPdfPath = sidecarOf[i]
          THEN /\ annotations' = o.anns
               /\ currentPdfCommentsFolder' = o.folder
          ELSE \* another click has set the path and emptied the list meanwhile
               /\ annotations' \in {annotations, <<>>}
               /\ currentPdfCommentsFolder' = o.folder
    /\ Refresh(container, scKids, els, annotations', selectedAnnotationId)
    /\ UNCHANGED <<pdfViewer, isZooming, closed, viewVars,
                   loadP, zoomVars, nFail, currentPdfPath, sidecarOf, noteVars>>

\* ExampleView.onClose (part_001 lines 468-487)
OnClose ==
    /\ ~closed
    /\ closed' = TRUE
    /\ destroyIfAny(pdfViewer)
    /\ pdfViewer' = 0
    /\ pendingNoteCreation' = [a \in CommentIds |-> "none"]
    /\ UNCHANGED <<isLoadingPdf, isZooming, zoomEnabled, loadH, domVars, loadP,
                   zoomVars, nFail>>
    /\ UNCHANGED <<storeVars, selectedAnnotationId, vault, vaultOps, loadA, comment,
                   noteJob, inlineSave, textVars>>

\* ---------------------------------------------------------------------
\* PDFViewerComponent: render passes started by setScale
\* ---------------------------------------------------------------------
\* A zoom record z is one zoom click and the setScale call it makes:
\*   v, gen, scale   the viewer, the generation captured (785), the new scale
\*   ph              "visible", "bgScheduled", "background", "fallback", "done"
\*   pages, idx      list and shared cursor of renderPagesWithConcurrency
\*   remaining       pages left for the background phase
\*   w               the workers (w[1] is the renderPage of the fallback loop)
\*   settled         Promise.all of the running pass has settled
\*   awaited         the click handler still awaits setScale
\*   sc              the scroll container setScale found (fallback loop)
\*   noop            setScale returned at line 776
\*   out             how the call ended
\*   path, loaded    history: the path setScale took, and whether the viewer's
\*                   loadPdf had resolved when it was called
Workers == 1..WorkerLimit
ZoomIds == 1..Max2(MaxZooms, MaxReadyZooms)

AllQuiet(z) == \A j \in Workers : z.w[j].pc \in {"idle", "done", "failed"}
AnyFailed(z) == \E j \in Workers : z.w[j].pc = "failed"

\* A faulty worker loop that reads the shared cursor but does not advance it
\* (lines 539-540 without `idx += 1`): C28 fails with it.
PullWithoutAdvance(z, curGen, doc, idx, pcs, cont, sck) ==
    IF z.gen # curGen \/ idx >= Len(z.pages)
    THEN [idx |-> idx, w |-> DoneWorker, pcs |-> pcs]
    ELSE [idx |-> idx,
          w |-> [IdleWorker EXCEPT !.pc = "getPage", !.page = z.pages[idx + 1],
                                   !.el = pcs[z.pages[idx + 1]],
                                   !.task = <<z.k, z.ph, idx + 1>>],
          pcs |-> pcs]

\* The worker loop of renderPagesWithConcurrency (537-544) from its top, and
\* renderPageIntoContainer up to getPage (448-460).  A call that returns at
\* once lets the loop take the next page in the same task.
RECURSIVE Pull(_, _, _, _, _, _, _)
Pull(z, curGen, doc, idx, pcs, cont, sck) ==
    IF z.gen # curGen THEN [idx |-> idx, w |-> DoneWorker, pcs |-> pcs]
    ELSE IF idx >= Len(z.pages) THEN [idx |-> idx + 1, w |-> DoneWorker, pcs |-> pcs]
    ELSE LET p == z.pages[idx + 1]
             sc == getScrollContainer(cont)
             el == IF sc = 0 THEN NoEl
                   ELSE IF pcs[p] # NoEl THEN pcs[p]
                   ELSE FirstWithPage(sck[sc], p)
         IN IF ~doc \/ el = NoEl
            THEN Pull(z, curGen, doc, idx + 1, pcs, cont, sck)
            ELSE [idx |-> idx + 1,
                  w |-> [IdleWorker EXCEPT !.pc = "getPage", !.page = p, !.el = el,
                                           !.task = <<z.k, z.ph, idx + 1>>],
                  pcs |-> [pcs EXCEPT ![p] = el]]

\* renderPagesWithConcurrency (532-548): min(limit, pages.length) workers
\* are started one after the other
RECURSIVE StartWorkers(_, _, _, _, _, _, _)
StartWorkers(j, z, curGen, doc, pcs, cont, sck) ==
    IF j > WorkerLimit \/ j > Len(z.pages) THEN [z |-> z, pcs |-> pcs]
    ELSE LET r == Pull(z, curGen, doc, z.idx, pcs, cont, sck)
         IN StartWorkers(j + 1, [z EXCEPT !.idx = r.idx, !.w[j] = r.w],
                         curGen, doc, r.pcs, cont, sck)

renderPagesWithConcurrency(z, pages, curGen, doc, pcs, cont, sck) ==
    StartWorkers(1, [z EXCEPT !.pages = pages, !.idx = 0, !.settled = FALSE,
                              !.w = [j \in Workers |-> IdleWorker]],
                 curGen, doc, pcs, cont, sck)

\* how a setScale call ended: res is "noop", "noScroll", "completed", "stale"
\* or "rejected" (then with the phase, the await that threw and its page)
Rejected(ph, err, page) == [res |-> "rejected", ph |-> ph, err |-> err, page |-> page]
Ended(res) == [res |-> res, ph |-> "", err |-> "", page |-> 0]

\* a pass that has nothing left to do; out: how it ended
NewZoom(k, v, gen, scale) ==
    [k |-> k, v |-> v, gen |-> gen, scale |-> scale, ph |-> "done", pages |-> <<>>,
     idx |-> 0, remaining |-> <<>>, w |-> [j \in Workers |-> IdleWorker],
     settled |-> TRUE, awaited |-> FALSE, sc |-> 0, noop |-> FALSE, out |-> Ended(""),
     path |-> "", loaded |-> loadP[v].pc = "done"]

\* A faulty variant of the check of line 817 that takes every generation for
\* the current one: C27 fails with it.
AlwaysCurrent(gen, curGen) == TRUE

\* The generation check of setScale after the visible phase (817)
StillCurrent(gen, curGen) == gen = curGen

\* What follows when Promise.all (548) settles.  Visible phase: setScale goes
\* on at 817-820 (scheduleBackgroundRender, 551-568) or rejects, and the
\* click handler's finally runs (fin).  Background phase: run() ends.
Over(z, out) ==
    [z EXCEPT !.ph = "done", !.pages = <<>>, !.idx = 0, !.remaining = <<>>,
              !.w = [j \in Workers |-> IdleWorker], !.settled = TRUE,
              !.awaited = FALSE, !.sc = 0, !.out = out]

\* the rejection of Promise.all: that of the worker that failed
Rejection(z) ==
    LET j == CHOOSE j \in Workers : z.w[j].pc = "failed"
    IN Rejected(z.ph, z.w[j].err, z.w[j].page)

Settle(z, curGen) ==
    IF z.settled
    THEN [z |-> IF AllQuiet(z) THEN Over(z, z.out) ELSE z,
          fin |-> FALSE, bg |-> FALSE]
    ELSE IF AnyFailed(z)
    THEN [z |-> IF AllQuiet(z) THEN Over(z, Rejection(z))
                ELSE [z EXCEPT !.settled = TRUE, !.awaited = FALSE,
                               !.out = Rejection(z)],
          fin |-> z.awaited, bg |-> FALSE]
    ELSE IF ~AllQuiet(z)
    THEN [z |-> z, fin |-> FALSE, bg |-> FALSE]
    ELSE IF z.ph = "visible" /\ StillCurrent(z.gen, curGen) /\ z.remaining # <<>>
    THEN [z |-> [z EXCEPT !.ph = "bgScheduled", !.awaited = FALSE,
                          !.pages = <<>>, !.idx = 0,
                          !.w = [j \in Workers |-> IdleWorker]],
          fin |-> z.awaited, bg |-> TRUE]
    ELSE [z |-> Over(z, Ended(IF StillCurrent(z.gen, curGen) THEN "completed"
                                  ELSE "stale")), fin |-> z.awaited, bg |-> FALSE]

\* finally of a zoom click handler (part_001 424-430, 442-448)
ZoomFinally(c, s, e) ==
    /\ isZooming' = FALSE
    /\ zoomEnabled' = ZoomButtonsEnabled(pdfViewer, isLoadingPdf, FALSE)
    /\ Refresh(c, s, e, annotations, selectedAnnotationId)
    /\ UNCHANGED <<pdfViewer, isLoadingPdf, loadH, closed>>

\* the handler stays suspended in `await setScale`
ZoomPending(c, s, e) ==
    /\ isZooming' = TRUE
    /\ zoomEnabled' = ZoomButtonsEnabled(pdfViewer, isLoadingPdf, TRUE)
    /\ SetDom(c, s, e)
    /\ UNCHANGED <<pdfViewer, isLoadingPdf, loadH, closed>>

\* A faulty variant of the guard of line 776 that forgets the comparison of
\* the scales: C4 fails with it.
SetScaleIgnoresEqualScale(v, scale) == ~pdfDoc[v]

\* setScale line 776
SetScaleIsNoop(v, scale) == scale = currentScale[v] \/ ~pdfDoc[v]

\* the pages of the visible phase (816)
FirstPhasePages(visible, all) == IF visible # <<>> THEN visible ELSE Take(all, SliceLen)
\* the pages of the background phase (801-802)
RemainingPages(visible, all) == FilterOut(all, Range(visible))

\* setScale(scale) on viewer v up to its first await, called by zoom click k
setScale(k, v, scale) ==
    IF SetScaleIsNoop(v, scale)
    THEN /\ zooms' = Append(zooms, [NewZoom(k, v, renderGeneration[v], scale)
                                        EXCEPT !.noop = TRUE, !.out = Ended("noop")])
         /\ ZoomFinally(container, scKids, els)
         /\ UNCHANGED viewVars
    ELSE
    LET gen == renderGeneration[v] + 1
        sc == getScrollContainer(container)
        e1 == scaleExistingPageBoxSizes(container, scKids, els, scale, currentScale[v])
        all == getOrderedPageNumbersFromDom(container, scKids)
        z0 == NewZoom(k, v, gen, scale)
    IN
    /\ currentScale' = [currentScale EXCEPT ![v] = scale]
    /\ renderGeneration' = [renderGeneration EXCEPT ![v] = gen]
    /\ inFlightRenderTasks' =
           [inFlightRenderTasks EXCEPT ![v] = cancelInFlightRenders(@)]
    /\ clearPreviewScale(v)
    /\ UNCHANGED <<pdfDoc, docState, destroyedAt>>
    /\ IF sc = 0
       THEN \* 789
            /\ zooms' = Append(zooms, [z0 EXCEPT !.out = Ended("noScroll")])
            /\ ZoomFinally(container, scKids, els)
            /\ UNCHANGED <<pageContainers, backgroundRenderGen>>
       ELSE IF all = <<>>
       THEN \* 805-810: full render into the emptied scroll container
            /\ zooms' = Append(zooms,
                   [z0 EXCEPT !.ph = "fallback", !.path = "fallback",
                              !.settled = FALSE, !.awaited = TRUE,
                              !.sc = sc,
                              !.w[1] = [IdleWorker EXCEPT !.pc = "getPage", !.page = 1]])
            /\ pageContainers' = [pageContainers EXCEPT ![v] = [p \in Pages |-> NoEl]]
            /\ ZoomPending(container, [scKids EXCEPT ![sc] = <<>>], e1)
            /\ UNCHANGED backgroundRenderGen
       ELSE \* 798-816
            \E visible \in VisibleChoices(container, scKids) :
              LET r == renderPagesWithConcurrency(
                           [z0 EXCEPT !.ph = "visible", !.path = "passes", !.awaited = TRUE,
                                      !.remaining = RemainingPages(visible, all)],
                           FirstPhasePages(visible, all), gen, TRUE,
                           pageContainers[v], container, scKids)
                  st == Settle(r.z, gen)
              IN /\ zooms' = Append(zooms, st.z)
                 /\ pageContainers' = [pageContainers EXCEPT ![v] = r.pcs]
                 /\ backgroundRenderGen' =
                        IF st.bg THEN [backgroundRenderGen EXCEPT ![v] = gen]
                        ELSE backgroundRenderGen
                 /\ IF st.fin THEN ZoomFinally(container, scKids, e1)
                    ELSE ZoomPending(container, scKids, e1)

\* zoom button click handlers (part_001 416-450); a disabled button gets no
\* click
ZoomTarget(dir, cur) ==
    IF dir = "in" THEN Min2(MaxScale, cur + ZoomStep) ELSE Max2(MinScale, cur - ZoomStep)

\* A faulty zoom handler that rescales the stored anchors by the zoom
\* factor: C23 fails with it.
ZoomClickRescalingAnchors(dir) ==
    /\ ~closed
    /\ zoomEnabled
    /\ pdfViewer # 0
    /\ zoomsLeft > 0
    /\ zoomsLeft' = zoomsLeft - 1
    /\ setScale(Len(zooms) + 1, pdfViewer, ZoomTarget(dir, currentScale[pdfViewer]))
    /\ annotations' =
           [i \in DOMAIN annotations |->
               [annotations[i] EXCEPT !.anchor.yNorm =
                   FracMul(@, ZoomTarget(dir, currentScale[pdfViewer]),
                           currentScale[pdfViewer])]]
    /\ UNCHANGED <<loadP, nFail, currentPdfPath, currentPdfCommentsFolder, sidecarOf,
                   noteVars>>

ZoomClick(dir) ==
    /\ ~closed
    /\ zoomEnabled
    /\ pdfViewer # 0
    /\ zoomsLeft > 0
    /\ zoomsLeft' = zoomsLeft - 1
    /\ setScale(Len(zooms) + 1, pdfViewer, ZoomTarget(dir, currentScale[pdfViewer]))
    /\ UNCHANGED <<loadP, nFail>>
    /\ UNCHANGED <<storeVars, noteVars>>

\* ---------------------------------------------------------------------
\* renderPageIntoContainer after each of its awaits (460-524)
\* ---------------------------------------------------------------------
ZoomKeep(c, s, e) == SetDom(c, s, e) /\ UNCHANGED ctlVars

\* Worker j of pass k goes on: "await" (it is suspended again, as wNew),
\* "return" (renderPageIntoContainer returned, the worker loop takes the next
\* page), or the await that threw, "getPage" or "text" (the worker's promise
\* rejects).  e1 and infl1 are the
\* page containers and the in-flight map as the step left them.
Advance(k, j, how, wNew, e1, infl1) ==
    LET z == zooms[k]
        v == z.v
        r == IF how = "return"
             THEN Pull(z, renderGeneration[v], pdfDoc[v], z.idx, pageContainers[v],
                       container, scKids)
             ELSE [idx |-> z.idx,
                   w |-> IF how = "await" THEN wNew
                         ELSE [IdleWorker EXCEPT !.pc = "failed", !.page = wNew.page,
                                                 !.err = how],
                   pcs |-> pageContainers[v]]
        st == Settle([z EXCEPT !.idx = r.idx, !.w[j] = r.w], renderGeneration[v])
    IN /\ zooms' = [zooms EXCEPT ![k] = st.z]
       /\ pageContainers' = [pageContainers EXCEPT ![v] = r.pcs]
       /\ inFlightRenderTasks' = [inFlightRenderTasks EXCEPT ![v] = infl1]
       /\ backgroundRenderGen' =
              IF st.bg THEN [backgroundRenderGen EXCEPT ![v] = z.gen]
              ELSE backgroundRenderGen
       /\ IF st.fin THEN ZoomFinally(container, scKids, e1)
          ELSE ZoomKeep(container, scKids, e1)
       /\ UNCHANGED <<pdfDoc, docState, currentScale, renderGeneration, destroyedAt,
                      previewScale, transform, loadP, zoomsLeft>>

InPass(k, j, pc) ==
    /\ k \in DOMAIN zooms
    /\ zooms[k].ph \in {"visible", "background"}
    /\ zooms[k].w[j].pc = pc

\* getPage settles: 460-481
WorkerGetPageDone(k, j) ==
    /\ InPass(k, j, "getPage")
    /\ LET z == zooms[k]
           v == z.v
           w == z.w[j]
           infl == inFlightRenderTasks[v]
       IN \/ /\ NoFail
             /\ IF z.gen # renderGeneration[v]
                THEN Advance(k, j, "return", w, els, infl)
                ELSE LET vp == Viewport(w.page, currentScale[v])
                         el == els[w.el]
                     IN Advance(k, j, "await",
                            [w EXCEPT !.pc = "render", !.scale = currentScale[v],
                                      !.hl = HasHl(el),
                                      !.oldC = NodesOf(el, "canvas"),
                                      !.oldT = NodesOf(el, "text")],
                            [els EXCEPT ![w.el].w = vp.width, ![w.el].h = vp.height],
                            [infl EXCEPT ![w.page] = w.task])
          \/ /\ Fail
             /\ Advance(k, j, "getPage", w, els, infl)
    /\ UNCHANGED <<storeVars, noteVars>>

\* the finally of the render task (493-496)
DropTask(infl, page, task) ==
    IF infl[page] = task THEN [infl EXCEPT ![page] = NoTask] ELSE infl

\* the render task settles: 482-511
WorkerRenderDone(k, j) ==
    /\ InPass(k, j, "render")
    /\ LET z == zooms[k]
           v == z.v
           w == z.w[j]
           infl == DropTask(inFlightRenderTasks[v], w.page, w.task)
       IN \/ /\ NoFail
             /\ IF z.gen # renderGeneration[v]
                THEN Advance(k, j, "return", w, els, infl)
                ELSE Advance(k, j, "await", [w EXCEPT !.pc = "textLayer"],
                         [els EXCEPT ![w.el] =
                             SwapIn(@, w.oldC,
                                    Node("canvas", v, z.gen, z.ph, w.scale), w.hl)],
                         infl)
          \/ \* cancelled or failed: caught (489-492)
             /\ Fail
             /\ Advance(k, j, "return", w, els, infl)
    /\ UNCHANGED <<storeVars, noteVars>>

\* getTextContent and then renderTextLayer settle (512-515; between the two
\* awaits only the generation is compared, so they are one step): 515-524
WorkerTextLayerDone(k, j) ==
    /\ InPass(k, j, "textLayer")
    /\ LET z == zooms[k]
           v == z.v
           w == z.w[j]
           infl == inFlightRenderTasks[v]
       IN \/ /\ NoFail
             /\ IF z.gen # renderGeneration[v]
                THEN Advance(k, j, "return", w, els, infl)
                ELSE Advance(k, j, "return", w,
                         [els EXCEPT ![w.el] =
                             SwapIn(@, w.oldT,
                                    Node("text", v, z.gen, z.ph, w.scale), w.hl)],
                         infl)
          \/ /\ Fail
             /\ Advance(k, j, "text", w, els, infl)
    /\ UNCHANGED <<storeVars, noteVars>>

\* the idle callback / timer of scheduleBackgroundRender fires: run (555-559)
BackgroundRun(k) ==
    /\ k \in DOMAIN zooms
    /\ zooms[k].ph = "bgScheduled"
    /\ LET z == zooms[k]
           v == z.v
       IN IF z.gen # renderGeneration[v]
          THEN /\ zooms' = [zooms EXCEPT ![k] = Over(z, Ended("stale"))]
               /\ UNCHANGED pageContainers
          ELSE LET r == renderPagesWithConcurrency(
                            [z EXCEPT !.ph = "background"], z.remaining,
                            renderGeneration[v], pdfDoc[v], pageContainers[v],
                            container, scKids)
                   st == Settle(r.z, renderGeneration[v])
               IN /\ zooms' = [zooms EXCEPT ![k] = st.z]
                  /\ pageContainers' = [pageContainers EXCEPT ![v] = r.pcs]
    /\ UNCHANGED <<ctlVars, domVars, pdfDoc, docState, currentScale, renderGeneration,
                   inFlightRenderTasks, backgroundRenderGen, destroyedAt,
                   previewScale, transform, loadP, zoomsLeft, nFail>>
    /\ UNCHANGED <<storeVars, noteVars>>

\* ---------------------------------------------------------------------
\* The full render of setScale (805-813): renderPage after each await
\* ---------------------------------------------------------------------
InFallback(k, pc) ==
    /\ k \in DOMAIN zooms
    /\ zooms[k].ph = "fallback"
    /\ zooms[k].w[1].pc = pc

\* setScale returns or rejects out of the loop; the click handler's finally
FallbackEnd(k, out, c, s, e) ==
    /\ zooms' = [zooms EXCEPT ![k] = Over(@, out)]
    /\ ZoomFinally(c, s, e)

FallbackElement(z) == <<z.v, z.gen, z.w[1].page>>

\* getPage settles: 641-665
FallbackGetPageDone(k) ==
    /\ InFallback(k, "getPage")
    /\ LET z == zooms[k]
           v == z.v
           p == z.w[1].page
           e == FallbackElement(z)
       IN \/ /\ NoFail
             /\ zooms' = [zooms EXCEPT ![k].w[1].pc = "render",
                                       ![k].w[1].el = e,
                                       ![k].w[1].scale = currentScale[v]]
             /\ pageContainers' = [pageContainers EXCEPT ![v][p] = e]
             /\ ZoomKeep(container, scKids,
                         Put(els, e, NewPageContainer(p, currentScale[v])))
          \/ /\ Fail
             /\ FallbackEnd(k, Rejected("fallback", "getPage", p), container, scKids, els)
             /\ UNCHANGED pageContainers
    /\ UNCHANGED <<pdfDoc, docState, currentScale, renderGeneration,
                   inFlightRenderTasks, backgroundRenderGen, destroyedAt,
                   previewScale, transform, loadP, zoomsLeft>>
    /\ UNCHANGED <<storeVars, noteVars>>

\* page.render settles: 662-667
FallbackRenderDone(k) ==
    /\ InFallback(k, "render")
    /\ LET z == zooms[k]
           e == FallbackElement(z)
       IN \/ /\ NoFail
             /\ zooms' = [zooms EXCEPT ![k].w[1].pc = "textLayer"]
             /\ ZoomKeep(container, scKids,
                    [els EXCEPT ![e].kids =
                        Append(@, Node("canvas", z.v, z.gen, "fallback", z.w[1].scale))])
          \/ /\ Fail
             /\ FallbackEnd(k, Rejected("fallback", "render", z.w[1].page),
                         container, scKids, els)
    /\ UNCHANGED <<viewVars, loadP, zoomsLeft>>
    /\ UNCHANGED <<storeVars, noteVars>>

\* getTextContent and renderTextLayer settle: 674-680 (the page container is appended to the
\* scroll container setScale found), then the loop (808-811): its condition
\* reads this.pdfDoc.numPages, a TypeError once pdfDoc is null
FallbackTextLayerDone(k) ==
    /\ InFallback(k, "textLayer")
    /\ LET z == zooms[k]
           v == z.v
           p == z.w[1].page
           e == FallbackElement(z)
           e1 == [els EXCEPT ![e].kids =
                     Append(@, Node("text", v, z.gen, "fallback", z.w[1].scale))]
           s1 == [scKids EXCEPT ![z.sc] = Append(@, e)]
       IN \/ /\ NoFail
             /\ IF pdfDoc[v] /\ p + 1 <= NumPages /\ z.gen = renderGeneration[v]
                THEN /\ zooms' = [zooms EXCEPT ![k].w[1] =
                             [IdleWorker EXCEPT !.pc = "getPage", !.page = p + 1]]
                     /\ ZoomKeep(container, s1, e1)
                ELSE FallbackEnd(k, IF ~pdfDoc[v] THEN Rejected("fallback", "destroyed", p)
                                    ELSE IF p + 1 <= NumPages THEN Ended("stale")
                                    ELSE Ended("completed"), container, s1, e1)
          \/ /\ Fail
             /\ FallbackEnd(k, Rejected("fallback", "text", p), container, scKids, els)
    /\ UNCHANGED <<viewVars, loadP, zoomsLeft>>
    /\ UNCHANGED <<storeVars, noteVars>>

\* ---------------------------------------------------------------------
\* The program
\* ---------------------------------------------------------------------
Next ==
    \/ \E i \in Viewers : LoadClick(i)
    \/ \E i \in Viewers : LoadClickNotPdf(i)
    \/ \E i \in Viewers : LoadReadBinaryDone(i)
    \/ \E i \in Viewers : LoadMkViewerDone(i)
    \/ \E v \in Viewers : LoadGetDocumentDone(v)
    \/ \E v \in Viewers : LoadGetPageDone(v)
    \/ \E v \in Viewers : LoadRenderDone(v)
    \/ \E v \in Viewers : LoadTextLayerDone(v)
    \/ \E i \in Viewers : LoadAnnotationsDone(i)
    \/ \E dir \in {"in", "out"} : ZoomClick(dir)
    \/ \E k \in ZoomIds, j \in Workers : WorkerGetPageDone(k, j)
    \/ \E k \in ZoomIds, j \in Workers : WorkerRenderDone(k, j)
    \/ \E k \in ZoomIds, j \in Workers : WorkerTextLayerDone(k, j)
    \/ \E k \in ZoomIds : BackgroundRun(k)
    \/ \E k \in ZoomIds : FallbackGetPageDone(k)
    \/ \E k \in ZoomIds : FallbackRenderDone(k)
    \/ \E k \in ZoomIds : FallbackTextLayerDone(k)

Spec == Init /\ [][Next]_vars

\* ---------------------------------------------------------------------
\* A session in state Ready: one document fully loaded, then zoomed to scale
\* s by clicks that each ran to completion with every page in view
\* ---------------------------------------------------------------------
ReadyScales == {MinScale, InitialScale, MaxScale}

ZoomsTo(s) == (IF s > InitialScale THEN s - InitialScale ELSE InitialScale - s) \div ZoomStep

ReadySlot(p, s) ==
    LET g == ZoomsTo(s)
        kind == IF g = 0 THEN "load" ELSE "visible"
    IN [w |-> Viewport(p, s).width, h |-> Viewport(p, s).height,
        kids |-> <<Node("canvas", 1, g, kind, s), Node("text", 1, g, kind, s), HlNode>>,
        rects |-> <<>>]

\* a Ready session of a document with the pages ps and the annotations
\* anns, on the vault files
ReadyOn(s, ps, anns, files) ==
    /\ pdfViewer = 1
    /\ isLoadingPdf = FALSE
    /\ isZooming = FALSE
    /\ zoomEnabled = TRUE
    /\ loadH = [i \in Viewers |-> IF i = 1 THEN "done" ELSE "idle"]
    /\ closed = FALSE
    /\ container = <<1>>
    /\ scKids = [v \in Viewers |-> IF v = 1 THEN [p \in ps |-> <<1, 0, p>>] ELSE <<>>]
    /\ pdfDoc = [v \in Viewers |-> v = 1]
    /\ docState = [v \in Viewers |-> IF v = 1 THEN "open" ELSE "none"]
    /\ currentScale = [v \in Viewers |-> IF v = 1 THEN s ELSE InitialScale]
    /\ renderGeneration = [v \in Viewers |-> IF v = 1 THEN ZoomsTo(s) ELSE 0]
    /\ pageContainers = [v \in Viewers |->
                           [p \in ps |-> IF v = 1 THEN <<1, 0, p>> ELSE NoEl]]
    /\ inFlightRenderTasks = [v \in Viewers |-> [p \in ps |-> NoTask]]
    /\ backgroundRenderGen = [v \in Viewers |-> -1]
    /\ destroyedAt = [v \in Viewers |-> -1]
    /\ previewScale = [v \in Viewers |-> 0]
    /\ transform = [v \in Viewers |-> NoTransform]
    /\ loadP = [v \in Viewers |-> IF v = 1 THEN [NoLoad EXCEPT !.pc = "done"] ELSE NoLoad]
    /\ nFail = 0
    /\ currentPdfPath = 1
    /\ currentPdfCommentsFolder = 1
    /\ annotations = anns
    /\ sidecarOf = [i \in Viewers |-> IF i = 1 THEN 1 ELSE 0]
    /\ StoreAtRestOn(files)
    /\ els = renderHighlights(container, scKids,
                              [x \in {<<1, 0, p>> : p \in ps} |-> ReadySlot(x[3], s)],
                              annotations)
    /\ commentsTrack = renderCommentMarkers(container, scKids, els, annotations,
                                            selectedAnnotationId)

ReadyWith(s, ps, anns) == ReadyOn(s, ps, anns, EmptyVault)

ReadyDocument(s, ps) == ReadyWith(s, ps, <<StoredAnn(1)>>)

ReadySession(s) == ReadyDocument(s, Pages)

ReadyInit ==
    /\ \E s \in ReadyScales : ReadySession(s)
    /\ zooms = <<>>
    /\ zoomsLeft = MaxReadyZooms
    /\ NoText

NextReady ==
    \/ \E dir \in {"in", "out"} : ZoomClick(dir)
    \/ \E k \in ZoomIds, j \in Workers : WorkerGetPageDone(k, j)
    \/ \E k \in ZoomIds, j \in Workers : WorkerRenderDone(k, j)
    \/ \E k \in ZoomIds, j \in Workers : WorkerTextLayerDone(k, j)
    \/ \E k \in ZoomIds : BackgroundRun(k)
    \/ OnClose

SpecReady == ReadyInit /\ [][NextReady]_vars

\* ---------------------------------------------------------------------
\* One zoom change on the Ready viewer of a document with more pages than
\* the worker pool has workers
\* ---------------------------------------------------------------------
PoolInit ==
    /\ ReadyDocument(InitialScale, 1..PoolPages)
    /\ zooms = <<>>
    /\ zoomsLeft = MaxPoolZooms
    /\ NoText

NextPool ==
    \/ \E dir \in {"in", "out"} : ZoomClick(dir)
    \/ \E k \in ZoomIds, j \in Workers : WorkerGetPageDone(k, j)
    \/ \E k \in ZoomIds, j \in Workers : WorkerRenderDone(k, j)
    \/ \E k \in ZoomIds, j \in Workers : WorkerTextLayerDone(k, j)
    \/ \E k \in ZoomIds : BackgroundRun(k)
    \/ OnClose

SpecPool == PoolInit /\ [][NextPool]_vars

\* ---------------------------------------------------------------------
\* The comment markers of a reloaded document while the user zooms and
\* selects
\* ---------------------------------------------------------------------
\* click on the marker of annotation id (511-516)
MarkerClick(id) ==
    /\ ~closed
    /\ \E m \in DOMAIN commentsTrack : commentsTrack[m].annotationId = id
    /\ selectedAnnotationId' = id
    /\ commentsTrack' = renderCommentMarkers(container, scKids, els, annotations, id)
    /\ UNCHANGED <<ctlVars, container, scKids, els, viewVars, loadP, zoomVars, nFail,
                   storeVars, pendingNoteCreation, vault, vaultOps, loadA, comment,
                   noteJob, inlineSave, textVars>>

\* mousedown outside the markers while an annotation is selected and the
\* inline editor has nothing to save (251-267)
DeselectClick ==
    /\ ~closed
    /\ selectedAnnotationId # 0
    /\ selectedAnnotationId' = 0
    /\ commentsTrack' = renderCommentMarkers(container, scKids, els, annotations, 0)
    /\ UNCHANGED <<ctlVars, container, scKids, els, viewVars, loadP, zoomVars, nFail,
                   storeVars, pendingNoteCreation, vault, vaultOps, loadA, comment,
                   noteJob, inlineSave, textVars>>

\* an annotation of document 1 on page p, as an earlier session stored it
StoredOn(id, p, yNorm) ==
    Annotation(id, NotePathOf(1, id), p, yNorm,
               <<[pageNumber |-> p,
                  rects |-> <<NormalizedRect(Frac(1, 8), yNorm, Frac(3, 4), Frac(1, 16)),
                              NormalizedRect(Frac(1, 8), yNorm, Frac(1, 4), Frac(1, 16))>>]>>)

\* the lists a sidecar of document 1 can hold: page NumPages + 1 is a page
\* that the document on screen does not have
StoredLists ==
    { <<>>,
      <<StoredAnn(1)>>,
      <<StoredOn(11, 2, Frac(1, 3)), StoredAnn(1), StoredOn(12, 1, Frac(1, 2))>>,
      <<StoredOn(13, NumPages + 1, Frac(3, 4)), StoredOn(11, 2, Frac(0, 1))>> }

StoredIds == UNION {{l[i].id : i \in DOMAIN l} : l \in StoredLists}

MarkersInit ==
    /\ \E s \in ReadyScales, anns \in StoredLists : ReadyWith(s, Pages, anns)
    /\ zooms = <<>>
    /\ zoomsLeft = MaxMarkerZooms
    /\ NoText

NextMarkers ==
    \/ \E dir \in {"in", "out"} : ZoomClick(dir)
    \/ \E k \in ZoomIds, j \in Workers : WorkerGetPageDone(k, j)
    \/ \E k \in ZoomIds, j \in Workers : WorkerRenderDone(k, j)
    \/ \E k \in ZoomIds, j \in Workers : WorkerTextLayerDone(k, j)
    \/ \E k \in ZoomIds : BackgroundRun(k)
    \/ \E id \in StoredIds : MarkerClick(id)
    \/ DeselectClick
    \/ OnClose

SpecMarkers == MarkersInit /\ [][NextMarkers]_vars

\* clearPreviewScale, 575-594), called on the viewer of a Ready session
\* while it zooms
\* ---------------------------------------------------------------------
\* the scales a gesture previews
PreviewScales == {MinScale, MaxScale}

\* `scale / (this.currentScale || 1)` (581), scales being counted in quarters
PreviewFactor(scale, cur) == IF cur = 0 THEN Frac(scale, 4) ELSE Frac(scale, cur)

\* A faulty variant of setPreviewScale that applies the scale as setScale
\* does (780-784): C12 fails with it.
setPreviewScaleAsZoom(v, scale) ==
    /\ previewScale' = [previewScale EXCEPT ![v] = scale]
    /\ transform' = transform
    /\ currentScale' = [currentScale EXCEPT ![v] = scale]
    /\ renderGeneration' = [renderGeneration EXCEPT ![v] = @ + 1]
    /\ UNCHANGED <<pdfDoc, docState, pageContainers, inFlightRenderTasks,
                   backgroundRenderGen, destroyedAt>>

\* setPreviewScale(scale) on viewer v (575-583)
setPreviewScale(v, scale) ==
    /\ previewScale' = [previewScale EXCEPT ![v] = scale]
    /\ transform' =
           IF getScrollContainer(container) = 0 THEN transform
           ELSE [transform EXCEPT ![getScrollContainer(container)] =
                     PreviewFactor(scale, currentScale[v])]
    /\ UNCHANGED <<pdfDoc, docState, currentScale, renderGeneration, pageContainers,
                   inFlightRenderTasks, backgroundRenderGen, destroyedAt>>

SetPreviewScale(scale) ==
    /\ ~closed
    /\ pdfViewer # 0
    /\ setPreviewScale(pdfViewer, scale)
    /\ UNCHANGED <<ctlVars, domVars, loadP, zoomVars, nFail, storeVars, noteVars>>

ClearPreviewScale ==
    /\ ~closed
    /\ pdfViewer # 0
    /\ clearPreviewScale(pdfViewer)
    /\ UNCHANGED <<pdfDoc, docState, currentScale, renderGeneration, pageContainers,
                   inFlightRenderTasks, backgroundRenderGen, destroyedAt>>
    /\ UNCHANGED <<ctlVars, domVars, loadP, zoomVars, nFail, storeVars, noteVars>>

PreviewInit ==
    /\ \E s \in ReadyScales : ReadySession(s)
    /\ zooms = <<>>
    /\ zoomsLeft = MaxPreviewZooms
    /\ NoText

NextPreview ==
    \/ \E dir \in {"in", "out"} : ZoomClick(dir)
    \/ \E k \in ZoomIds, j \in Workers : WorkerGetPageDone(k, j)
    \/ \E k \in ZoomIds, j \in Workers : WorkerRenderDone(k, j)
    \/ \E k \in ZoomIds, j \in Workers : WorkerTextLayerDone(k, j)
    \/ \E k \in ZoomIds : BackgroundRun(k)
    \/ OnClose
    \/ \E scale \in PreviewScales : SetPreviewScale(scale)
    \/ ClearPreviewScale

SpecPreview == PreviewInit /\ [][NextPreview]_vars

\* =====================================================================
\* Annotation store (ExampleView, part_001 lines 497-1035)
\* =====================================================================
\* ---------------------------------------------------------------------
\* Geometry of a selection.  Lengths are counted in half pixels.  A
\* selection is what the DOM reports for it: collapsed; top and height of
\* range.getBoundingClientRect(); page, the page container that encloses
\* the anchor node (0: none); rects, the client rectangles, each with the
\* page container found at its centre (0: none).  Page containers lie at
\* the left top of the window and have the box of their Page Slot.
\* ---------------------------------------------------------------------
ClientRect(left, top, width, height, page) ==
    [left |-> left, top |-> top, width |-> width, height |-> height, page |-> page]
Selection(collapsed, top, height, page, rects) ==
    [collapsed |-> collapsed, top |-> top, height |-> height, page |-> page,
     rects |-> rects]

\* nothing selected; a selection outside the pages; one line of page 1; a
\* selection that reaches beyond the box of page 1; a selection whose only
\* client rectangle is half a pixel wide
Selections ==
    { Selection(TRUE, 0, 0, 0, <<>>),
      Selection(FALSE, 10, 4, 0, <<ClientRect(5, 10, 20, 4, 0)>>),
      Selection(FALSE, 10, 4, 1, <<ClientRect(9, 10, 18, 4, 1)>>),
      Selection(FALSE, 70, 8, 1, <<ClientRect(-6, 70, 66, 8, 1)>>),
      Selection(FALSE, 10, 4, 1, <<ClientRect(9, 10, 1, 4, 1)>>) }

\* Math.max(0, Math.min(1, x)) on an exact fraction
Clamp01(f) == IF f[1] < 0 THEN <<0, 1>> ELSE IF f[1] > f[2] THEN <<1, 1>> ELSE f
\* n / f for an integer n and a positive fraction f
DivBy(n, f) == Frac(n * f[2], f[1])

\* pageEl.getBoundingClientRect() of page p: width and height of its box
PageBox(p) ==
    IF <<1, 0, p>> \in DOMAIN els THEN els[<<1, 0, p>>] ELSE [w |-> <<0, 1>>, h |-> <<0, 1>>]

NoAnchor == [pageNumber |-> 0, yNorm |-> <<0, 1>>]

\* getSelectionAnchorFromCurrentSelection (1000-1034); NoAnchor is null
getSelectionAnchor(sel) ==
    IF sel.collapsed \/ sel.height = 0 \/ sel.page = 0 THEN NoAnchor
    ELSE IF PageBox(sel.page).h[1] = 0 THEN NoAnchor
    ELSE [pageNumber |-> sel.page,
          yNorm |-> Clamp01(FracMul(DivBy(2 * sel.top + sel.height, PageBox(sel.page).h),
                                    1, 2))]

\* one client rectangle normalized to the box of its page and clamped (920-931)
NormalizeRect(r) ==
    NormalizedRect(Clamp01(DivBy(r.left, PageBox(r.page).w)),
                   Clamp01(DivBy(r.top, PageBox(r.page).h)),
                   Clamp01(DivBy(r.width, PageBox(r.page).w)),
                   Clamp01(DivBy(r.height, PageBox(r.page).h)))

RECURSIVE MapRects(_)
MapRects(rs) == IF rs = <<>> THEN <<>> ELSE <<NormalizeRect(Head(rs))>> \o MapRects(Tail(rs))

\* getSelectionHighlightRectsFromCurrentSelection (897-941): rectangles of
\* more than half a pixel each way (902), on a page with a box (911-917),
\* grouped by page in ascending page order (937-940)
RECURSIVE GroupByPage(_, _)
GroupByPage(rs, p) ==
    IF p > NumPages THEN <<>>
    ELSE LET mine == SelectSeq(rs, LAMBDA r : r.page = p)
         IN (IF mine = <<>> THEN <<>>
             ELSE <<[pageNumber |-> p, rects |-> MapRects(mine)]>>)
            \o GroupByPage(rs, p + 1)

getSelectionHighlightRects(sel) ==
    IF sel.collapsed THEN <<>>
    ELSE GroupByPage(SelectSeq(sel.rects,
                         LAMBDA r : /\ r.width > 1 /\ r.height > 1
                                    /\ r.page # 0
                                    /\ PageBox(r.page).w[1] # 0
                                    /\ PageBox(r.page).h[1] # 0), 1)

\* ---------------------------------------------------------------------
\* The vault (Obsidian's app.vault).  A call takes effect when it settles;
\* calls settle in the order they were made.  A folder or file that is to
\* be created and has appeared since the call was made is either refused
\* (the promise rejects) or taken over.
\* ---------------------------------------------------------------------
VaultOp(who, op, path, content, create) ==
    [who |-> who, op |-> op, path |-> path, content |-> content, create |-> create]

\* a vault that drops what is written to it
SettledNowhere(o, v, ok) == v

\* the results (TRUE: resolves) the oldest call can have
Outcomes(o, v) ==
    CASE o.op = "read" -> {v.sidecar.kind # "unreadable"}
      [] o.op = "writeSidecar" ->
            IF o.create /\ SidecarOfDoc(v, o.path).kind # "absent" THEN BOOLEAN ELSE {TRUE}
      [] o.op = "createFolder" ->
            IF v.paths[o.path] = "none" THEN {TRUE}
            ELSE IF v.paths[o.path] = "folder" THEN BOOLEAN ELSE {FALSE}
      [] o.op = "createNote" -> IF o.path \in v.notes THEN BOOLEAN ELSE {TRUE}
      [] OTHER -> {TRUE}

Settled(o, v, ok) ==
    IF ~ok THEN v
    ELSE CASE o.op = "writeSidecar" ->
                 IF o.path = 1 THEN [v EXCEPT !.sidecar = o.content]
                 ELSE [v EXCEPT !.others[o.path] = o.content]
           [] o.op = "createFolder" -> [v EXCEPT !.paths[o.path] = "folder"]
           [] o.op = "createNote" ->
                 [v EXCEPT !.notes = @ \cup {o.path}, !.edited = @ \ {o.path}]
           [] o.op = "modifyNote" -> [v EXCEPT !.edited = @ \cup {o.path}]
           [] OTHER -> v

\* ---------------------------------------------------------------------
\* The store as one value, so that code which runs on from one await to
\* the next can be composed
\* ---------------------------------------------------------------------
Store ==
    [anns |-> annotations, folder |-> currentPdfCommentsFolder,
     sel |-> selectedAnnotationId, pend |-> pendingNoteCreation, vault |-> vault,
     ops |-> vaultOps, loadA |-> loadA, comment |-> comment, job |-> noteJob,
     inl |-> inlineSave]

\* When loadAnnotationsForCurrentPdf has returned, the load handler that
\* awaits it runs to its end in the same task (part_001 386-394, 406-412).
\* render: what the code of the step has rendered itself, "none", "markers"
\* (renderCommentMarkers, 612) or "both" (970-971).
CommitStep(st, render) ==
    LET returns == loadA.pc # "done" /\ st.loadA.pc = "done"
        both == returns \/ render = "both"
    IN /\ loadH' = IF returns THEN [i \in Viewers |->
                                      IF loadH[i] = "annotations" THEN "done" ELSE loadH[i]]
                   ELSE loadH
       /\ isLoadingPdf' = IF returns THEN FALSE ELSE isLoadingPdf
       /\ zoomEnabled' = IF returns THEN ZoomButtonsEnabled(pdfViewer, FALSE, isZooming)
                         ELSE zoomEnabled
       /\ els' = IF both THEN renderHighlights(container, scKids, els, st.anns)
                 ELSE els
       /\ commentsTrack' =
              IF both \/ render = "markers"
              THEN renderCommentMarkers(container, scKids, els, st.anns, st.sel)
              ELSE commentsTrack
       /\ UNCHANGED <<pdfViewer, isZooming, closed>>

CommitRendering(st, render) ==
    /\ CommitStep(st, render)
    /\ annotations' = st.anns
    /\ currentPdfCommentsFolder' = st.folder
    /\ selectedAnnotationId' = st.sel
    /\ pendingNoteCreation' = st.pend
    /\ vault' = st.vault
    /\ vaultOps' = st.ops
    /\ loadA' = st.loadA
    /\ comment' = st.comment
    /\ noteJob' = st.job
    /\ inlineSave' = st.inl
    /\ UNCHANGED textVars
    /\ UNCHANGED <<container, scKids, viewVars, loadP, zoomVars, nFail,
                   currentPdfPath, sidecarOf>>

Commit(st) == CommitRendering(st, "none")

\* the store once the oldest vault call has settled with result ok
AfterSettle(ok) ==
    [Store EXCEPT !.ops = Tail(vaultOps), !.vault = Settled(Head(vaultOps), vault, ok)]

\* `ann.notePath = note.path` on the annotation object with this id
SetNotePath(anns, id, path) ==
    [i \in DOMAIN anns |-> IF anns[i].id = id THEN [anns[i] EXCEPT !.notePath = path]
                           ELSE anns[i]]

\* saveAnnotationsForCurrentPdf (878-895) up to its await
Save(st, who) ==
    [st EXCEPT !.ops = Append(@, VaultOp(who, "writeSidecar", currentPdfPath,
                                         Payload(currentPdfPath, st.anns),
                                         SidecarOfDoc(st.vault, currentPdfPath).kind = "absent"))]

\* a search that passes over the folders that exist already
RECURSIVE CandidateThatIsFree(_, _)
CandidateThatIsFree(paths, c) ==
    IF paths[c] = "none" THEN c
    ELSE IF c % MaxCandidates = 0 THEN 0
    ELSE CandidateThatIsFree(paths, c + 1)

\* ensurePerPdfFolder (740-756): the first candidate from c on that is no
\* file; 0 when the candidates of the document are used up
RECURSIVE Candidate(_, _)
Candidate(paths, c) ==
    IF paths[c] # "file" THEN c
    ELSE IF c % MaxCandidates = 0 THEN 0
    ELSE Candidate(paths, c + 1)

\* ---------------------------------------------------------------------
\* loadAnnotationsForCurrentPdf (836-876)
\* ---------------------------------------------------------------------
LoadWho == <<"load", 0, "">>

\* the catch block (871-875)
LoadCaught(st, kind) ==
    [st EXCEPT !.anns = <<>>, !.loadA.pc = "done", !.loadA.caught = TRUE,
               !.loadA.kind = IF kind = "" THEN @ ELSE kind]

\* a check that takes every parsed sidecar
SidecarAccepted(f, path) == "valid"

\* how line 850 takes a parsed sidecar
SidecarKind(f, path) ==
    IF f.version # 1 THEN "version"
    ELSE IF f.pdfPath # path THEN "path"
    ELSE IF ~f.isArray THEN "notArray"
    ELSE "valid"

\* a migration loop whose createCommentNote does not look for the file
RECURSIVE LoadMigrateCreating(_, _)
LoadMigrateCreating(st, j) ==
    IF j > Len(st.anns)
    THEN IF st.loadA.migrated
         THEN [Save(st, LoadWho) EXCEPT !.loadA.pc = "save", !.loadA.writes = @ + 1]
         ELSE [st EXCEPT !.loadA.pc = "done"]
    ELSE IF st.anns[j].notePath # NoPath THEN LoadMigrateCreating(st, j + 1)
    ELSE [st EXCEPT !.ops = Append(@, VaultOp(LoadWho, "createNote",
                                              NotePathOf(st.folder, st.anns[j].id),
                                              NoSidecar, FALSE)),
                    !.loadA.pc = "note", !.loadA.i = j]

\* the migration loop (861-868) from index j of the list on, up to the next
\* await: createCommentNote (758-786) returns a note that exists already
RECURSIVE LoadMigrate(_, _)
LoadMigrate(st, j) ==
    IF j > Len(st.anns)
    THEN IF st.loadA.migrated
         THEN [Save(st, LoadWho) EXCEPT !.loadA.pc = "save", !.loadA.writes = @ + 1]
         ELSE [st EXCEPT !.loadA.pc = "done"]
    ELSE IF st.anns[j].notePath # NoPath THEN LoadMigrate(st, j + 1)
    ELSE LET path == NotePathOf(st.folder, st.anns[j].id)
         IN IF path \in st.vault.notes
            THEN LoadMigrate([st EXCEPT !.anns[j].notePath = path,
                                        !.loadA.migrated = TRUE], j + 1)
            ELSE [st EXCEPT !.ops = Append(@, VaultOp(LoadWho, "createNote", path,
                                                      NoSidecar, FALSE)),
                            !.loadA.pc = "note", !.loadA.i = j]

\* after `this.currentPdfCommentsFolder = await this.ensurePerPdfFolder(...)`
\* (846, 852, 859)
LoadAfterFolder(st) ==
    IF st.loadA.kind = "valid" THEN LoadMigrate(st, 1)
    ELSE [st EXCEPT !.loadA.pc = "done"]

\* the call of ensurePerPdfFolder at 846, 852 or 859
LoadEnsure(st) ==
    LET c == Candidate(st.vault.paths, FirstCandidate(currentPdfPath))
    IN IF st.vault.paths[c] = "folder" THEN LoadAfterFolder([st EXCEPT !.folder = c])
       ELSE [st EXCEPT !.ops = Append(@, VaultOp(LoadWho, "createFolder", c,
                                                 NoSidecar, FALSE)),
                       !.loadA.pc = "folder"]

\* 837-846: the function up to its first await
LoadStart(st) ==
    IF st.vault.sidecar.kind = "absent"
    THEN LoadEnsure([st EXCEPT !.anns = <<>>, !.loadA.kind = "absent"])
    ELSE [st EXCEPT !.ops = Append(@, VaultOp(LoadWho, "read", 0, NoSidecar, FALSE)),
                    !.loadA.pc = "read"]

LoadSettles(pc) ==
    /\ vaultOps # <<>>
    /\ Head(vaultOps).who = LoadWho
    /\ loadA.pc = pc

\* vault.read settles: 848-859
LoadReadDone ==
    /\ LoadSettles("read")
    /\ \E ok \in Outcomes(Head(vaultOps), vault) :
         LET st == AfterSettle(ok)
             f == vault.sidecar
             kind == SidecarKind(f, currentPdfPath)
         IN Commit(IF ~ok THEN LoadCaught(st, "unreadable")
                   ELSE IF f.kind = "malformed" THEN LoadCaught(st, "malformed")
                   ELSE IF kind # "valid"
                   THEN LoadEnsure([st EXCEPT !.anns = <<>>, !.loadA.kind = kind])
                   ELSE LoadEnsure([st EXCEPT !.anns = f.annotations,
                                              !.loadA.kind = "valid"]))

\* vault.createFolder settles
LoadFolderDone ==
    /\ LoadSettles("folder")
    /\ \E ok \in Outcomes(Head(vaultOps), vault) :
         LET st == AfterSettle(ok)
         IN Commit(IF ~ok THEN LoadCaught(st, "")
                   ELSE LoadAfterFolder([st EXCEPT !.folder = Head(vaultOps).path]))

\* vault.create of a migrated annotation's note settles: 864-865
LoadNoteDone ==
    /\ LoadSettles("note")
    /\ \E ok \in Outcomes(Head(vaultOps), vault) :
         LET st == AfterSettle(ok)
         IN Commit(IF ~ok THEN LoadCaught(st, "")
                   ELSE LoadMigrate([st EXCEPT !.anns[loadA.i].notePath = Head(vaultOps).path,
                                               !.loadA.migrated = TRUE], loadA.i + 1))

\* the save after the migration settles: 868-870
LoadSaveDone ==
    /\ LoadSettles("save")
    /\ \E ok \in Outcomes(Head(vaultOps), vault) :
         LET st == AfterSettle(ok)
         IN Commit(IF ~ok THEN LoadCaught(st, "") ELSE [st EXCEPT !.loadA.pc = "done"])

\* ---------------------------------------------------------------------
\* The note-creation closures: 978-985 (started by handleCommentAction,
\* origin "create") and 575-583 (started by doSave, origin "save")
\* ---------------------------------------------------------------------
JobWho(a, o) == <<"note", a, o>>
InlineWho(n) == <<"inline", n, "">>

\* the rest of doSave once the note is known (599-621), up to vault.modify;
\* `isSaving` is set from here on
InlineModify(st, n, path) ==
    IF path \notin st.vault.notes THEN [st EXCEPT !.inl[n].pc = "done"]
    ELSE [st EXCEPT !.ops = Append(@, VaultOp(InlineWho(n), "modifyNote", path,
                                              NoSidecar, FALSE)),
                    !.inl[n].pc = "modify"]

\* a doSave call that awaits the closure (a, o) goes on when it has settled:
\* 565-571 for a promise found in pendingNoteCreation, 585-593 for its own
InlineResumes(st, n, a, o, ok) ==
    LET w == st.inl[n]
        path == st.job[a][o].path
    IN IF w.a # a \/ w.on # o THEN st
       ELSE IF w.pc = "awaitExisting"
       THEN IF ok
            THEN [Save([st EXCEPT !.anns = SetNotePath(@, a, path)], InlineWho(n))
                     EXCEPT !.inl[n].pc = "sidecar"]
            ELSE [st EXCEPT !.inl[n].pc = "done"]
       ELSE IF w.pc = "awaitOwn"
       THEN IF ok
            THEN InlineModify([st EXCEPT !.anns = SetNotePath(@, a, path),
                                         !.pend[a] = "none"], n, path)
            ELSE [st EXCEPT !.inl[n].pc = "done", !.pend[a] = "none"]
       ELSE st

RECURSIVE InlinesResume(_, _, _, _, _)
InlinesResume(st, n, a, o, ok) ==
    IF n > MaxInlineSaves THEN st
    ELSE InlinesResume(InlineResumes(st, n, a, o, ok), n + 1, a, o, ok)

\* the closure's promise settles: the finally of 987 for origin "create",
\* then the doSave calls that await it, in the order they began to
JobSettles(st, a, o, ok) ==
    LET st1 == [st EXCEPT !.job[a][o].pc = IF ok THEN "resolved" ELSE "rejected",
                          !.pend[a] = IF o = "create" THEN "none" ELSE @]
    IN InlinesResume(st1, 1, a, o, ok)

\* `ann.notePath = note.path; await this.saveAnnotationsForCurrentPdf()`
JobHasNote(st, a, o, path) ==
    [Save([st EXCEPT !.anns = SetNotePath(@, a, path)], JobWho(a, o))
        EXCEPT !.job[a][o].pc = "save", !.job[a][o].path = path]

\* createCommentNote (758-786) up to its await
JobCreateNote(st, a, o) ==
    LET path == NotePathOf(st.folder, a)
    IN IF path \in st.vault.notes THEN JobHasNote(st, a, o, path)
       ELSE [st EXCEPT !.ops = Append(@, VaultOp(JobWho(a, o), "createNote", path,
                                                 NoSidecar, FALSE)),
                       !.job[a][o].pc = "create"]

\* the closure from its start up to its first await
JobStart(st, a, o) ==
    LET c == Candidate(st.vault.paths, FirstCandidate(currentPdfPath))
        s0 == [st EXCEPT !.job[a][o].doc = currentPdfPath]
    IN IF s0.folder # 0 THEN JobCreateNote(s0, a, o)
       ELSE IF s0.vault.paths[c] = "folder"
       THEN JobCreateNote([s0 EXCEPT !.folder = c], a, o)
       ELSE [s0 EXCEPT !.ops = Append(@, VaultOp(JobWho(a, o), "createFolder", c,
                                                 NoSidecar, FALSE)),
                       !.job[a][o].pc = "folder", !.job[a][o].cand = c]

JobAwaits(a, o, pc) ==
    /\ vaultOps # <<>>
    /\ Head(vaultOps).who = JobWho(a, o)
    /\ noteJob[a][o].pc = pc

\* ensurePerPdfFolder settles in a closure
NoteFolderDone(a, o) ==
    /\ JobAwaits(a, o, "folder")
    /\ \E ok \in Outcomes(Head(vaultOps), vault) :
         LET st == AfterSettle(ok)
         IN Commit(IF ~ok THEN JobSettles(st, a, o, FALSE)
                   ELSE JobCreateNote([st EXCEPT !.folder = noteJob[a][o].cand], a, o))

\* vault.create of the note settles in a closure
NoteCreateDone(a, o) ==
    /\ JobAwaits(a, o, "create")
    /\ \E ok \in Outcomes(Head(vaultOps), vault) :
         LET st == AfterSettle(ok)
         IN Commit(IF ~ok THEN JobSettles(st, a, o, FALSE)
                   ELSE JobHasNote(st, a, o, Head(vaultOps).path))

\* the closure's save settles and the closure returns the note
NoteSaveDone(a, o) ==
    /\ JobAwaits(a, o, "save")
    /\ \E ok \in Outcomes(Head(vaultOps), vault) :
         Commit(JobSettles(AfterSettle(ok), a, o, ok))

\* ---------------------------------------------------------------------
\* handleCommentAction (943-998), called with a non-empty selected text
\* ---------------------------------------------------------------------
CommentWho(a) == <<"comment", a, "">>

\* 943-972, up to the await of saveAnnotationsForCurrentPdf; the call that
\* finds no anchor returns at 949
CommentAction(sel) ==
    /\ ~closed
    /\ currentPdfPath # 0
    /\ \E a \in CommentIds :
         /\ comment[a] = "none"
         /\ \A b \in CommentIds : b < a => comment[b] # "none"
         /\ LET anchor == getSelectionAnchor(sel)
                ann == Annotation(a, NoPath, anchor.pageNumber, anchor.yNorm,
                                  getSelectionHighlightRects(sel))
            IN IF anchor = NoAnchor
               THEN /\ comment' = [comment EXCEPT ![a] = "nothing"]
                    /\ UNCHANGED <<ctlVars, domVars, viewVars, loadP, zoomVars, nFail,
                                   storeVars, selectedAnnotationId, pendingNoteCreation,
                                   vault, vaultOps, loadA, noteJob, inlineSave, textVars>>
               ELSE /\ LET st == Save([Store EXCEPT !.anns = Append(@, ann), !.sel = a,
                                                    !.comment[a] = "save"],
                                      CommentWho(a))
                       IN /\ CommitStep(st, "both")
                          /\ annotations' = st.anns
                          /\ selectedAnnotationId' = st.sel
                          /\ vaultOps' = st.ops
                          /\ comment' = st.comment
                    /\ UNCHANGED <<container, scKids, viewVars, loadP, zoomVars, nFail,
                                   currentPdfPath, currentPdfCommentsFolder, sidecarOf,
                                   pendingNoteCreation, vault, loadA, noteJob,
                                   inlineSave, textVars>>

\* the save settles: 973-988, the closure is started and not awaited
CommentSaveDone(a) ==
    /\ vaultOps # <<>>
    /\ Head(vaultOps).who = CommentWho(a)
    /\ comment[a] = "save"
    /\ \E ok \in Outcomes(Head(vaultOps), vault) :
         LET st == AfterSettle(ok)
         IN Commit(IF ~ok THEN [st EXCEPT !.comment[a] = "rejected"]
                   ELSE IF currentPdfPath = 0 THEN [st EXCEPT !.comment[a] = "done"]
                   ELSE [JobStart([st EXCEPT !.comment[a] = "done"], a, "create")
                            EXCEPT !.pend[a] = "create"])

\* ---------------------------------------------------------------------
\* doSave of the inline editor (559-622).  The editor is that of the
\* selected annotation.
\* ---------------------------------------------------------------------
InlineSaveClick ==
    /\ ~closed
    /\ selectedAnnotationId # 0
    /\ \E i \in DOMAIN annotations : annotations[i].id = selectedAnnotationId
    /\ \E n \in 1..MaxInlineSaves :
         /\ inlineSave[n].pc = "none"
         /\ \A m \in 1..MaxInlineSaves : m < n => inlineSave[m].pc # "none"
         /\ LET a == selectedAnnotationId
                ann == annotations[CHOOSE i \in DOMAIN annotations : annotations[i].id = a]
                isSaving == \E m \in 1..MaxInlineSaves :
                                inlineSave[m].a = a /\ inlineSave[m].pc = "modify"
                st == [Store EXCEPT !.inl[n].a = a]
            IN IF isSaving THEN Commit([st EXCEPT !.inl[n].pc = "done"])
               ELSE IF ann.notePath # NoPath THEN Commit(InlineModify(st, n, ann.notePath))
               ELSE IF pendingNoteCreation[a] # "none"
               THEN Commit([st EXCEPT !.inl[n].pc = "awaitExisting",
                                      !.inl[n].on = pendingNoteCreation[a]])
               ELSE /\ noteJob[a]["save"].pc \in {"none", "resolved", "rejected"}
                    /\ Commit([JobStart([st EXCEPT !.inl[n].pc = "awaitOwn",
                                                   !.inl[n].on = "save",
                                                   !.job[a]["save"] = IdleJob],
                                        a, "save")
                                  EXCEPT !.pend[a] = "save"])

\* the save of 568 settles
InlineSidecarDone(n) ==
    /\ vaultOps # <<>>
    /\ Head(vaultOps).who = InlineWho(n)
    /\ inlineSave[n].pc = "sidecar"
    /\ \E ok \in Outcomes(Head(vaultOps), vault) :
         LET st == AfterSettle(ok)
             w == inlineSave[n]
         IN Commit(IF ~ok THEN [st EXCEPT !.inl[n].pc = "done"]
                   ELSE InlineModify(st, n, noteJob[w.a][w.on].path))

\* vault.modify of the note settles: 609-612
InlineModifyDone(n) ==
    /\ vaultOps # <<>>
    /\ Head(vaultOps).who = InlineWho(n)
    /\ inlineSave[n].pc = "modify"
    /\ CommitRendering([AfterSettle(TRUE) EXCEPT !.inl[n].pc = "done", !.sel = 0],
                       "markers")

\* ---------------------------------------------------------------------
\* A session of the annotation store: the load handler has rendered the
\* pages of document 1 and has called loadAnnotationsForCurrentPdf (385)
\* ---------------------------------------------------------------------
Unbacked(id) == Annotation(id, NoPath, 1, Frac(1, 4), <<>>)
OutOfRange(d) ==
    Annotation(10 * d + 3, NotePathOf(d, 10 * d + 3), 1, Frac(3, 2),
               <<[pageNumber |-> 1,
                  rects |-> <<NormalizedRect(Frac(-1, 4), Frac(0, 1), Frac(5, 4), Frac(1, 8))>>]>>)

\* the sidecar files a document can come with
Sidecars ==
    { NoSidecar,
      [NoSidecar EXCEPT !.kind = "unreadable"],
      [NoSidecar EXCEPT !.kind = "malformed"],
      [Payload(1, <<StoredAnn(1)>>) EXCEPT !.version = 2],
      Payload(2, <<StoredAnn(1)>>),
      [Payload(1, <<>>) EXCEPT !.isArray = FALSE],
      Payload(1, <<>>),
      Payload(1, <<StoredAnn(1)>>),
      Payload(1, <<Unbacked(11), Unbacked(12)>>),
      Payload(1, <<OutOfRange(1)>>) }

\* the notes that the annotations of a sidecar name
NotesOf(f) == {f.annotations[i].notePath : i \in DOMAIN f.annotations} \ {NoPath}

\* the annotations that the sidecar f holds without notePath
UnbackedIn(f) == {f.annotations[i].id :
                     i \in {j \in DOMAIN f.annotations : f.annotations[j].notePath = NoPath}}

\* A load that meets no await of the vault (no sidecar, the folder is
\* there) has returned, and the load handler has run to its end.
StoreSession(files, firsts, others) ==
    /\ pdfViewer = 1
    /\ isZooming = FALSE
    /\ closed = FALSE
    /\ container = <<1>>
    /\ scKids = [v \in Viewers |-> IF v = 1 THEN [p \in Pages |-> <<1, 0, p>>] ELSE <<>>]
    /\ pdfDoc = [v \in Viewers |-> v = 1]
    /\ docState = [v \in Viewers |-> IF v = 1 THEN "open" ELSE "none"]
    /\ currentScale = [v \in Viewers |-> InitialScale]
    /\ renderGeneration = [v \in Viewers |-> 0]
    /\ pageContainers = [v \in Viewers |->
                           [p \in Pages |-> IF v = 1 THEN <<1, 0, p>> ELSE NoEl]]
    /\ inFlightRenderTasks = [v \in Viewers |-> [p \in Pages |-> NoTask]]
    /\ backgroundRenderGen = [v \in Viewers |-> -1]
    /\ destroyedAt = [v \in Viewers |-> -1]
    /\ previewScale = [v \in Viewers |-> 0]
    /\ transform = [v \in Viewers |-> NoTransform]
    /\ loadP = [v \in Viewers |-> IF v = 1 THEN [NoLoad EXCEPT !.pc = "done"] ELSE NoLoad]
    /\ zooms = <<>>
    /\ zoomsLeft = 0
    /\ nFail = 0
    /\ currentPdfPath = 1
    /\ sidecarOf = [i \in Viewers |-> IF i = 1 THEN 1 ELSE 0]
    /\ \E f \in files, first \in firsts, oth \in others :
       \E found \in IF first = "folder" THEN SUBSET {NotePathOf(1, id) : id \in UnbackedIn(f)}
                     ELSE {{}} :
         LET st == LoadStart(
                     [anns |-> <<>>, folder |-> 0, sel |-> 0,
                      pend |-> [a \in CommentIds |-> "none"],
                      vault |-> [sidecar |-> f,
                                 others |-> oth,
                                 paths |-> [c \in Folders |->
                                               IF c = 1 THEN first ELSE "none"],
                                 notes |-> NotesOf(f) \cup found,
                                 edited |-> NotesOf(f) \cup found],
                      ops |-> <<>>, loadA |-> IdleLoadA,
                      comment |-> [a \in CommentIds |-> "none"],
                      job |-> [a \in CommentIds |-> [o \in Origins |-> IdleJob]],
                      inl |-> [n \in 1..MaxInlineSaves |-> IdleSave]])
             returned == st.loadA.pc = "done"
             slots == [x \in {<<1, 0, p>> : p \in Pages} |->
                          [ReadySlot(x[3], InitialScale) EXCEPT !.kids = SubSeq(@, 1, 2)]]
         IN /\ loadH = [i \in Viewers |-> IF i # 1 THEN "idle"
                                          ELSE IF returned THEN "done" ELSE "annotations"]
            /\ isLoadingPdf = ~returned
            /\ zoomEnabled = (returned /\ ZoomButtonsEnabled(1, FALSE, FALSE))
            /\ els = IF returned THEN renderHighlights(<<1>>, scKids, slots, st.anns)
                     ELSE slots
            /\ commentsTrack =
                   IF returned
                   THEN renderCommentMarkers(<<1>>, scKids, slots, st.anns, st.sel)
                   ELSE <<>>
            /\ annotations = st.anns
            /\ currentPdfCommentsFolder = st.folder
            /\ selectedAnnotationId = st.sel
            /\ pendingNoteCreation = st.pend
            /\ vault = st.vault
            /\ vaultOps = st.ops
            /\ loadA = st.loadA
            /\ comment = st.comment
            /\ noteJob = st.job
            /\ inlineSave = st.inl
            /\ noteFile = <<>>
            /\ textarea = NoEditor

NotesInit ==
    StoreSession(Sidecars, {"none", "folder", "file"}, {[d \in Viewers \ {1} |-> NoSidecar]})

NextNotes ==
    \/ LoadReadDone
    \/ LoadFolderDone
    \/ LoadNoteDone
    \/ LoadSaveDone
    \/ \E sel \in Selections : CommentAction(sel)
    \/ \E a \in CommentIds : CommentSaveDone(a)
    \/ \E a \in CommentIds, o \in Origins : NoteFolderDone(a, o)
    \/ \E a \in CommentIds, o \in Origins : NoteCreateDone(a, o)
    \/ \E a \in CommentIds, o \in Origins : NoteSaveDone(a, o)
    \/ InlineSaveClick
    \/ \E n \in 1..MaxInlineSaves : InlineSidecarDone(n)
    \/ \E n \in 1..MaxInlineSaves : InlineModifyDone(n)

SpecNotes == NotesInit /\ [][NextNotes]_vars

\* ---------------------------------------------------------------------
\* A session of the annotation store in which the load button is clicked
\* again: document 1 (sidecar of one annotation, notes folder present) is
\* displayed and its annotations are being loaded; the other paths come
\* with a sidecar of their own or with none.  The handler of the second
\* click is followed up to its first await (350) or, for a path that names
\* no PDF file, to its end.
\* ---------------------------------------------------------------------
OtherSidecars == [Viewers \ {1} -> BOOLEAN]

SwitchInit ==
    StoreSession({Payload(1, <<StoredAnn(1)>>)}, {"folder"},
                 {[d \in Viewers \ {1} |->
                      IF h[d] THEN Payload(d, <<StoredAnn(d)>>) ELSE NoSidecar] :
                  h \in OtherSidecars})

\* The load of document 1 finds every annotation backed by a note, so it
\* awaits the read of the sidecar and the creation of a folder only.
NextSwitch ==
    \/ LoadReadDone
    \/ LoadFolderDone
    \/ \E sel \in Selections : CommentAction(sel)
    \/ \E a \in CommentIds : CommentSaveDone(a)
    \/ \E a \in CommentIds, o \in Origins : NoteFolderDone(a, o)
    \/ \E a \in CommentIds, o \in Origins : NoteCreateDone(a, o)
    \/ \E a \in CommentIds, o \in Origins : NoteSaveDone(a, o)
    \/ InlineSaveClick
    \/ \E n \in 1..MaxInlineSaves : InlineSidecarDone(n)
    \/ \E n \in 1..MaxInlineSaves : InlineModifyDone(n)
    \/ \E i \in Viewers : LoadClick(i)
    \/ \E i \in Viewers : LoadClickNotPdf(i)

SpecSwitch == SwitchInit /\ [][NextSwitch]_vars

\* ---------------------------------------------------------------------
\* The text of backing notes.  A text is the sequence of its characters;
\* the texts of the model are written with line feeds only.
\* ---------------------------------------------------------------------
NL == "\n"
Whitespace == {" ", NL}
Dashes == <<"-", "-", "-">>

\* s.startsWith(p)
StartsWith(s, p) == Len(s) >= Len(p) /\ SubSeq(s, 1, Len(p)) = p

\* s.indexOf(p, from): the least index (counted from 0) not below from at
\* which p occurs in s, -1 when there is none
RECURSIVE IndexOf(_, _, _)
IndexOf(s, p, from) ==
    IF from + Len(p) > Len(s) THEN -1
    ELSE IF SubSeq(s, from + 1, from + Len(p)) = p THEN from
    ELSE IndexOf(s, p, from + 1)

\* s.slice(from)
Slice(s, from) == SubSeq(s, from + 1, Len(s))

\* s.split('\n') and lines.join('\n')
RECURSIVE Split(_)
Split(s) ==
    LET i == IndexOf(s, <<NL>>, 0)
    IN IF i = -1 THEN <<s>> ELSE <<SubSeq(s, 1, i)>> \o Split(Slice(s, i + 1))

RECURSIVE Join(_)
Join(ls) ==
    IF ls = <<>> THEN <<>>
    ELSE IF Len(ls) = 1 THEN ls[1]
    ELSE ls[1] \o <<NL>> \o Join(Tail(ls))

\* s.trimStart(), s.trim()
RECURSIVE TrimStart(_)
TrimStart(s) == IF s # <<>> /\ Head(s) \in Whitespace THEN TrimStart(Tail(s)) ELSE s

RECURSIVE TrimEnd(_)
TrimEnd(s) ==
    IF s # <<>> /\ s[Len(s)] \in Whitespace THEN TrimEnd(SubSeq(s, 1, Len(s) - 1)) ELSE s

Trim(s) == TrimEnd(TrimStart(s))

\* stripFrontmatter (702-712)
stripFrontmatter(md) ==
    LET idx == IndexOf(md, <<NL>> \o Dashes, 3)
        end == idx + 4
        after == Slice(md, end)
    IN IF ~StartsWith(md, Dashes) \/ idx = -1 THEN [frontmatter |-> <<>>, body |-> md]
       ELSE [frontmatter |-> SubSeq(md, 1, end) \o <<NL>>,
             body |-> IF StartsWith(after, <<NL>>) THEN Slice(after, 1) ELSE after]

\* `lines[i].trim() === ''`, `/^\s*>/.test(raw)`, `raw.replace(/^\s*>/, '>')`
IsBlank(line) == Trim(line) = <<>>
IsQuoteLine(line) == StartsWith(TrimStart(line), <<">">>)
NormalizeQuote(line) == TrimStart(line)

\* the loops of 719 and 733, and the loop of 722-731, from line i on
RECURSIVE SkipBlank(_, _)
SkipBlank(lines, i) ==
    IF i <= Len(lines) /\ IsBlank(lines[i]) THEN SkipBlank(lines, i + 1) ELSE i

RECURSIVE SkipQuote(_, _)
SkipQuote(lines, i) ==
    IF i <= Len(lines) /\ IsQuoteLine(lines[i]) THEN SkipQuote(lines, i + 1) ELSE i

\* a split that leaves the blank lines after the quote block in the body
splitKeepingBlankLines(body) ==
    LET lines == Split(body)
        i1 == SkipBlank(lines, 1)
        i2 == SkipQuote(lines, i1)
        quoteLines == [k \in 1..(i2 - i1) |-> NormalizeQuote(lines[i1 + k - 1])]
    IN [quoteBlock |-> IF quoteLines = <<>> THEN <<>> ELSE Join(quoteLines) \o <<NL, NL>>,
        commentBody |-> Join(SubSeq(lines, i2, Len(lines)))]

\* splitLeadingQuote (714-738)
splitLeadingQuote(body) ==
    LET lines == Split(body)
        i1 == SkipBlank(lines, 1)
        i2 == SkipQuote(lines, i1)
        i3 == SkipBlank(lines, i2)
        quoteLines == [k \in 1..(i2 - i1) |-> NormalizeQuote(lines[i1 + k - 1])]
    IN [quoteBlock |-> IF quoteLines = <<>> THEN <<>> ELSE Join(quoteLines) \o <<NL, NL>>,
        commentBody |-> Join(SubSeq(lines, i3, Len(lines)))]

\* `text.replace(/\n/g, '\n> ')`
RECURSIVE QuotePrefix(_)
QuotePrefix(t) ==
    IF t = <<>> THEN <<>>
    ELSE (IF Head(t) = NL THEN <<NL, ">", " ">> ELSE <<Head(t)>>) \o QuotePrefix(Tail(t))

\* the quote block of 536 and 776
DefaultQuote(selectedText) == <<">", " ">> \o QuotePrefix(selectedText) \o <<NL, NL>>

\* the frontmatter of 766-773; "k" stands for the five `key: value` lines,
\* which hold no line of three dashes
Frontmatter == Dashes \o <<NL, "k", NL>> \o Dashes \o <<NL, NL>>

\* createCommentNote (766-780): the content of a new note
NoteContent(selectedText, commentText) ==
    Frontmatter \o DefaultQuote(selectedText) \o Trim(commentText) \o <<NL>>

\* ---------------------------------------------------------------------
\* The inline editor of the one annotation of a Ready session, whose note
\* exists: the note is read into the editor and written back by doSave
\* ---------------------------------------------------------------------
\* all texts over the characters cs that are no longer than n
RECURSIVE TextsUpTo(_, _)
TextsUpTo(cs, n) ==
    IF n = 0 THEN {<<>>}
    ELSE LET shorter == TextsUpTo(cs, n - 1)
         IN shorter \cup {<<c>> \o t : c \in cs, t \in {u \in shorter : Len(u) = n - 1}}

SelectedTexts == {<<"a">>, <<"a", NL, "b">>}
CommentTexts == {<<>>, <<"c">>, <<" ", "c", NL>>}
Inputs == {<<>>, <<"c">>, <<" ", "c", NL, "a">>}
Bodies == TextsUpTo({NL, " ", ">", "a"}, MaxBodyLen)

\* three quote lines, a blank line and free text
ThreeLineQuote == <<">", " ", "a", NL, ">", " ", "b", NL, ">", " ", "c">>
QuotedNote == ThreeLineQuote \o <<NL, NL, "x", " ", "y">>

\* the notes the session can find: notes as createCommentNote writes them,
\* and notes that were edited outside the view, with and without header
NoteFiles ==
    {NoteContent(t, c) : t \in SelectedTexts, c \in CommentTexts}
       \cup Bodies \cup {Frontmatter \o b : b \in Bodies}
       \cup {QuotedNote, Frontmatter \o QuotedNote}

EditorVault == [EmptyVault EXCEPT !.sidecar = Payload(1, <<StoredAnn(1)>>),
                                  !.paths[1] = "folder",
                                  !.notes = {StoredAnn(1).notePath}]

EditorInit ==
    /\ ReadyOn(InitialScale, Pages, <<StoredAnn(1)>>, EditorVault)
    /\ zooms = <<>>
    /\ zoomsLeft = 0
    /\ noteFile \in NoteFiles
    /\ \E t \in SelectedTexts : textarea = [NoEditor EXCEPT !.selectedText = t]

\* what the steps of the editor leave alone
EditorFrame ==
    UNCHANGED <<ctlVars, container, scKids, els, viewVars, loadP, zoomVars, nFail,
                storeVars, pendingNoteCreation, vault, vaultOps, loadA, comment,
                noteJob, inlineSave>>

\* click on the marker of annotation id (511-516): renderCommentMarkers
\* builds the editor with its defaults (520-537) and starts reading the
\* note (539-542)
EditorOpen(id) ==
    /\ ~closed
    /\ ~textarea.saving
    /\ \E m \in DOMAIN commentsTrack : commentsTrack[m].annotationId = id
    /\ selectedAnnotationId' = id
    /\ commentsTrack' = renderCommentMarkers(container, scKids, els, annotations, id)
    /\ textarea' = [NoEditor EXCEPT !.open = TRUE,
                                    !.selectedText = textarea.selectedText,
                                    !.quote = DefaultQuote(textarea.selectedText),
                                    !.reading = TRUE]
    /\ UNCHANGED noteFile
    /\ EditorFrame

\* vault.read settles: 543-550
EditorLoadDone ==
    /\ textarea.reading
    /\ LET fb == stripFrontmatter(noteFile)
           qc == splitLeadingQuote(fb.body)
       IN textarea' = [textarea EXCEPT !.reading = FALSE, !.loaded = TRUE,
                                       !.fm = fb.frontmatter,
                                       !.quote = qc.quoteBlock,
                                       !.value = TrimStart(qc.commentBody)]
    /\ UNCHANGED <<noteFile, selectedAnnotationId, commentsTrack>>
    /\ EditorFrame

\* the user types: the input listener of 554-557
EditorInput(v) ==
    /\ ~closed
    /\ textarea.open
    /\ ~textarea.saving
    /\ textarea' = [textarea EXCEPT !.value = v, !.dirty = TRUE]
    /\ UNCHANGED <<noteFile, selectedAnnotationId, commentsTrack>>
    /\ EditorFrame

\* doSave (559-607) on an annotation whose note exists, up to vault.modify;
\* it is called by the Save button and by Ctrl/Cmd+Enter (296-306)
EditorSave ==
    /\ ~closed
    /\ textarea.open
    /\ ~textarea.saving
    /\ LET next == textarea.fm \o textarea.quote \o textarea.value \o <<NL>>
       IN /\ Len(next) <= MaxNoteLen
          /\ textarea' = [textarea EXCEPT !.saving = TRUE, !.next = next]
    /\ UNCHANGED <<noteFile, selectedAnnotationId, commentsTrack>>
    /\ EditorFrame

\* vault.modify settles: 608-612, the annotation is deselected and the
\* markers are rendered without an editor
EditorModifyDone ==
    /\ textarea.saving
    /\ noteFile' = textarea.next
    /\ selectedAnnotationId' = 0
    /\ commentsTrack' = renderCommentMarkers(container, scKids, els, annotations, 0)
    /\ textarea' = [NoEditor EXCEPT !.selectedText = textarea.selectedText]
    /\ EditorFrame

\* mousedown outside the markers with nothing to save (251-267)
EditorDeselect ==
    /\ ~closed
    /\ textarea.open
    /\ ~textarea.dirty
    /\ ~textarea.saving
    /\ selectedAnnotationId' = 0
    /\ commentsTrack' = renderCommentMarkers(container, scKids, els, annotations, 0)
    /\ textarea' = [NoEditor EXCEPT !.selectedText = textarea.selectedText]
    /\ UNCHANGED noteFile
    /\ EditorFrame

NextEditor ==
    \/ \E id \in StoredIds : EditorOpen(id)
    \/ EditorLoadDone
    \/ \E v \in Inputs : EditorInput(v)
    \/ EditorSave
    \/ EditorModifyDone
    \/ EditorDeselect

SpecEditor == EditorInit /\ [][NextEditor]_vars

\* =====================================================================
\* Properties
\* =====================================================================
\* the page containers in the document (the Page Slots on screen)
Attached == Range(AttachedEls(container, scKids))

IsLayer(n) == n.t \in {"canvas", "text"}
Layers(el) == SelectSeq(el.kids, IsLayer)

\* bitmap and text overlay shown: pairs <<page container, node>>
Shown == {<<x, n>> \in Attached \X UNION {Range(els[y].kids) : y \in DOMAIN els} :
              n \in Range(els[x].kids) /\ IsLayer(n)}

\* box, bitmap and text overlay of every page container (highlight layers,
\* which belong to ExampleView.renderHighlights, left out)
Slots == [x \in DOMAIN els |-> [w |-> els[x].w, h |-> els[x].h, kids |-> Layers(els[x])]]

\* no handler, loadPdf or render pass has anything left to do
Quiescent ==
    /\ \A i \in Viewers : loadH[i] \in {"idle"} \cup HandlerOver
    /\ \A v \in Viewers : loadP[v].pc \in {"none", "done", "failed"}
    /\ \A k \in DOMAIN zooms : zooms[k].ph = "done"

\* page container x shows page x[3] rendered at scale s
RenderedAt(x, s) ==
    /\ \E n \in Range(els[x].kids) : n.t = "canvas" /\ n.s = s
    /\ \E n \in Range(els[x].kids) : n.t = "text" /\ n.s = s
    /\ \A n \in Range(els[x].kids) : IsLayer(n) => n.s = s

\* ---------------------------------------------------------------------
\* C1: a render that captured generation g never puts a bitmap or a text
\* overlay into a Page Slot on screen, never adds a Page Slot, and never
\* changes a slot's box, in a step that ends with a current generation
\* other than g.  (Nodes and page containers made by loadPdf carry no
\* generation; the box is also changed by setScale itself, which is current.)
\* ---------------------------------------------------------------------
C1_StaleGenerationNeverMutates ==
    [][ /\ \A xn \in Shown' \ Shown :
              xn[2].k # "load" => xn[2].g = renderGeneration'[xn[2].v]
        /\ \A x \in Attached' \ Attached :
              x[2] # 0 => x[2] = renderGeneration'[x[1]]
        /\ \A x \in DOMAIN els :
              (els'[x].w # els[x].w \/ els'[x].h # els[x].h) =>
                 \/ Len(zooms') > Len(zooms)
                 \/ \E k \in DOMAIN zooms, j \in Workers :
                       /\ zooms[k].w[j].el = x
                       /\ zooms[k].w[j].pc = "getPage"
                       /\ zooms[k].gen = renderGeneration'[zooms[k].v]
      ]_vars

\* ---------------------------------------------------------------------
\* C2: after the last zoom change on a loaded document, when no step failed
\* and nothing is left to run, every Page Slot of the document on screen
\* shows a bitmap and a text overlay rendered at the final zoom.  (A run that
\* has come to rest without that can never reach it: the liveness claim
\* fails on it whatever the scheduling.)
\* ---------------------------------------------------------------------
C2_AllPagesAtFinalZoomAtRest ==
    (/\ Quiescent
     /\ nFail = 0
     /\ zooms # <<>>
     /\ \A k \in DOMAIN zooms : zooms[k].loaded /\ zooms[k].v = pdfViewer
     /\ pdfDoc[zooms[Len(zooms)].v]
     /\ ~zooms[Len(zooms)].noop)
    => \A x \in Attached :
          x[1] = pdfViewer => RenderedAt(x, currentScale[pdfViewer])

\* ---------------------------------------------------------------------
\* C3: once the visible phase of an effective zoom change has completed and
\* its generation is still the current one, the box of every Page Slot of
\* the viewer on screen is the viewport of its page at the new scale.
\* ---------------------------------------------------------------------
VisiblePhaseCompleted(z) ==
    /\ z.path = "passes"
    /\ \/ z.ph \in {"bgScheduled", "background"}
       \/ z.ph = "done" /\ z.out.res = "completed"

C3_BoxMatchesViewportAfterVisiblePhase ==
    \A k \in DOMAIN zooms :
       LET z == zooms[k] IN
       (VisiblePhaseCompleted(z) /\ z.gen = renderGeneration[z.v]) =>
          \A x \in Attached :
             x[1] = z.v =>
                /\ els[x].w = Viewport(x[3], z.scale).width
                /\ els[x].h = Viewport(x[3], z.scale).height

\* ---------------------------------------------------------------------
\* C4: a setScale call with the current scale, or on a viewer without a
\* document, changes neither the generation, the scale, the in-flight map,
\* the page-container map nor any Page Slot, and starts no page render.
\* ---------------------------------------------------------------------
C4_NoopSetScaleChangesNothing ==
    [][ (/\ Len(zooms') = Len(zooms) + 1
         /\ LET z == zooms'[Len(zooms')]
            IN z.scale = currentScale[z.v] \/ ~pdfDoc[z.v])
        => /\ renderGeneration' = renderGeneration
           /\ currentScale' = currentScale
           /\ inFlightRenderTasks' = inFlightRenderTasks
           /\ pageContainers' = pageContainers
           /\ backgroundRenderGen' = backgroundRenderGen
           /\ container' = container
           /\ scKids' = scKids
           /\ Slots' = Slots
           /\ zooms'[Len(zooms')].ph = "done"
           /\ \A j \in Workers : zooms'[Len(zooms')].w[j].pc = "idle"
      ]_vars

\* a zoom click at the clamp has called setScale with the current scale on a
\* viewer that holds a document
C4_Witness ==
    \E k \in DOMAIN zooms :
       /\ zooms[k].noop
       /\ zooms[k].out.res = "noop"
       /\ pdfDoc[zooms[k].v]
       /\ zooms[k].scale = currentScale[zooms[k].v]
       /\ zooms[k].scale \in {MinScale, MaxScale}

\* ---------------------------------------------------------------------
\* C5: when the text overlay of one page fails during a zoom re-render
\* (getTextContent or renderTextLayer rejects), setScale does not reject,
\* and once nothing is left to run every other page shows the bitmap and the
\* text overlay of the new scale.
\* ---------------------------------------------------------------------
C5_TextFailureIsSwallowed ==
    \A k \in DOMAIN zooms :
       LET z == zooms[k] IN
       /\ ~(z.out.res = "rejected" /\ z.out.err = "text")
       /\ (/\ \A m \in DOMAIN zooms : zooms[m].ph = "done"
           /\ k = Len(zooms)
           /\ ~closed
           /\ z.out.res = "rejected"
           /\ z.out.err = "text")
          => \A x \in Attached :
                (x[1] = z.v /\ x[3] # z.out.page) => RenderedAt(x, currentScale[z.v])

\* ---------------------------------------------------------------------
\* C6: when the bitmap render of a page fails during loadPdf, the load is
\* reported as failed only if no page of the document has been rendered;
\* otherwise loadPdf goes on with the remaining pages and succeeds.
\* ---------------------------------------------------------------------
C6_LoadFailsOnlyWithoutPages ==
    \A v \in Viewers :
       (loadP[v].pc = "failed" /\ loadP[v].err = "render") =>
          \A x \in DOMAIN els : ~(x[1] = v /\ x[2] = 0 /\ x[3] < loadP[v].page)

\* ---------------------------------------------------------------------
\* C7: destroy() leaves the in-flight map empty and the generation
\* incremented, and afterwards no work started before it (the load's
\* page-by-page render, a render pass or a full render of an earlier
\* generation) creates a page container, adds one to the document, changes
\* its box or gives it a bitmap or a text overlay.
\* ---------------------------------------------------------------------
StartedBefore(v, g) == g < destroyedAt[v]

C7_DestroyInvalidatesAllWork ==
    [][ /\ \A v \in Viewers :
              destroyedAt'[v] # destroyedAt[v] =>
                 /\ inFlightRenderTasks'[v] = [p \in Pages |-> NoTask]
                 /\ renderGeneration'[v] = renderGeneration[v] + 1
        /\ \A x \in DOMAIN els' \ DOMAIN els : ~StartedBefore(x[1], x[2])
        /\ \A x \in Attached' \ Attached : ~StartedBefore(x[1], x[2])
        /\ \A x \in DOMAIN els :
              \A n \in Range(Slots'[x].kids) \ Range(Slots[x].kids) :
                 ~StartedBefore(n.v, n.g)
      ]_vars

\* ---------------------------------------------------------------------
\* C8: a viewer holds no document after its destroy() has returned, and at
\* most one document obtained by a load is open (not released) at a time.
\* ---------------------------------------------------------------------
C8_DocumentHandleReleased ==
    /\ \A v \in destroyed : ~pdfDoc[v]
    /\ Cardinality({v \in Viewers : docState[v] = "open"}) <= 1

\* ---------------------------------------------------------------------
\* C9: the page containers on screen belong to at most one viewer, and at
\* most one viewer that has not been destroyed is rendering the pages of its
\* load.
\* ---------------------------------------------------------------------
Loading(v) == loadP[v].pc \in {"getPage", "render", "textLayer"}

C9_NoOverlapOfDocuments ==
    /\ Cardinality({x[1] : x \in Attached}) <= 1
    /\ Cardinality({v \in Viewers \ destroyed : Loading(v)}) <= 1

\* ---------------------------------------------------------------------
\* C10: no zoom click makes setScale re-render (an effective call) while a
\* load handler is between its click and its finally.
\* ---------------------------------------------------------------------
LoadInProgress == \E i \in Viewers : loadH[i] \notin {"idle"} \cup HandlerOver

C10_ZoomOnlyWhenReady ==
    [][ (Len(zooms') = Len(zooms) + 1 /\ ~zooms'[Len(zooms')].noop)
        => ~LoadInProgress ]_vars

\* ---------------------------------------------------------------------
\* C11: when a load handler fails (its catch block runs and shows the
\* error), the session is torn down: the step that ends the handler leaves
\* no viewer in this.pdfViewer, the zoom buttons disabled, the annotation
\* list empty, and the document the handler's viewer had obtained is not
\* left open.
\* ---------------------------------------------------------------------
LoadFails(i) == loadH[i] # "failed" /\ loadH'[i] = "failed"

C11_LoadFailureTearsDown ==
    [][\A i \in Viewers :
          LoadFails(i) =>
              /\ pdfViewer' = 0
              /\ ~zoomEnabled'
              /\ annotations' = <<>>
              /\ docState'[i] # "open"]_vars

\* ---------------------------------------------------------------------
\* C12: setPreviewScale and clearPreviewScale only set or remove the
\* visual transform: a step of either leaves the render generation, the
\* current zoom, the in-flight tasks and every Page Slot (box, canvas, text
\* layer, membership of the document) as they were, and starts no page
\* render (no render pass is added or advanced).
\* ---------------------------------------------------------------------
PreviewStep == (\E scale \in PreviewScales : SetPreviewScale(scale)) \/ ClearPreviewScale

C12_PreviewTouchesOnlyTheTransform ==
    [][PreviewStep =>
          UNCHANGED <<renderGeneration, currentScale, inFlightRenderTasks,
                      pageContainers, container, scKids, els, zooms, loadP,
                      backgroundRenderGen>>]_vars

\* a preview transform is in place while a visible-phase pass is rendering
C12_Witness ==
    /\ \E v \in Viewers : previewScale[v] # 0 /\ transform[v] # NoTransform
    /\ \E k \in DOMAIN zooms : zooms[k].ph = "visible"
\* The closures of an annotation id that are creating its note
Creating(a) == {o \in Origins : noteJob[a][o].pc \in {"folder", "create", "save"}}

\* C13: for any annotation id at most one note-creation operation is in
\* progress at any time; a trigger that arrives while one is pending awaits
\* it instead of starting another.
C13_OneNoteCreationPerId ==
    \A a \in CommentIds : Cardinality(Creating(a)) <= 1

Creates(a) == comment[a] = "none" /\ comment'[a] = "save"
CreateCompletes(a) == comment[a] = "save" /\ comment'[a] = "done"
HasId(anns, a) == \E i \in DOMAIN anns : anns[i].id = a

KeptCalls ==
    IF /\ Len(vaultOps') >= Len(vaultOps)
       /\ SubSeq(vaultOps', 1, Len(vaultOps)) = vaultOps
    THEN Len(vaultOps) ELSE Len(vaultOps) - 1

\* C15: every sidecar write serializes the complete record: version 1, the
\* path of the open document and the whole in-memory annotation list at
\* the moment of the write, never a subset of it.
C15_SidecarWritesAreFull ==
    [][\A k \in DOMAIN vaultOps' :
          (k > KeptCalls /\ vaultOps'[k].op = "writeSidecar")
             => /\ vaultOps'[k].content.kind = "json"
                /\ vaultOps'[k].content.version = 1
                /\ vaultOps'[k].content.pdfPath = currentPdfPath'
                /\ vaultOps'[k].content.annotations = annotations']_vars

\* a write of a list of two annotations, one of them linked to its note
C15_Witness ==
    \E k \in DOMAIN vaultOps :
        /\ vaultOps[k].op = "writeSidecar"
        /\ Len(vaultOps[k].content.annotations) = 2
        /\ vaultOps[k].content.annotations = annotations
        /\ \E i \in 1..2 : annotations[i].notePath # NoPath

\* the sidecar is one that the claim calls invalid
InvalidSidecar(f) ==
    \/ f.kind \in {"unreadable", "malformed"}
    \/ f.version # 1
    \/ f.pdfPath # currentPdfPath
    \/ ~f.isArray
ReadSettles == loadA.pc = "read" /\ loadA'.pc # "read"
NotLoadedKinds == {"absent", "unreadable", "malformed", "version", "path", "notArray"}

\* C16: loading annotations never throws to its caller (the load handler
\* goes on to its end, not to its catch block) and yields an empty list
\* when the sidecar is absent, unreadable, malformed, of another version,
\* of another document or without an annotations array: nothing of the
\* sidecar is ever in the list.
C16_InvalidSidecarLoadsNothing ==
    /\ [](/\ loadA.pc = "done" => loadH[1] = "done"
          /\ loadA.kind \in NotLoadedKinds =>
                \A i \in DOMAIN annotations : annotations[i].id \in CommentIds)
    /\ [][(ReadSettles /\ InvalidSidecar(vault.sidecar)) =>
             /\ annotations' = <<>>
             /\ loadA'.kind \in NotLoadedKinds
             /\ loadA'.pc \in {"folder", "done"}]_vars

\* a sidecar of version 2 that holds an annotation has been read, and the
\* load has returned with an empty list
C16_Witness ==
    /\ loadA.pc = "done"
    /\ loadA.kind = "version"
    /\ vault.sidecar.version = 2
    /\ vault.sidecar.annotations # <<>>
    /\ annotations = <<>>
    /\ loadH[1] = "done"

\* C17: after the load has completed on an absent or invalid sidecar (wrong
\* version, other document path, malformed content) no annotation of the
\* sidecar is in the list, and a notes folder of the document exists and
\* is recorded as the folder of the session.
C17_FolderEnsuredWithoutSidecar ==
    (loadA.pc = "done" /\ loadA.kind \in {"absent", "version", "path", "notArray", "malformed"})
       => /\ \A i \in DOMAIN annotations : annotations[i].id \in CommentIds
          /\ currentPdfCommentsFolder # 0
          /\ vault.paths[currentPdfCommentsFolder] = "folder"

\* the annotations that a sidecar holds without notePath
UnbackedIds ==
    UNION {{f.annotations[i].id :
               i \in {j \in DOMAIN f.annotations : f.annotations[j].notePath = NoPath}} :
           f \in Sidecars}

\* the annotations of the list that came from the sidecar
Loaded == {i \in DOMAIN annotations : annotations[i].id \notin CommentIds}

\* C18: a load of a valid sidecar creates a note for every loaded
\* annotation without notePath, so that after the load every loaded
\* annotation has the path of a note that exists; the sidecar is rewritten
\* once when an annotation was migrated and not at all otherwise, never
\* once per migrated annotation.
C18_MigrationWritesOnce ==
    /\ loadA.writes <= 1
    /\ (loadA.pc = "done" /\ loadA.kind = "valid") =>
          /\ \A i \in Loaded : /\ annotations[i].notePath # NoPath
                               /\ annotations[i].notePath \in vault.notes
          /\ loadA.writes = IF loadA.migrated THEN 1 ELSE 0
          /\ (\E i \in Loaded : annotations[i].id \in UnbackedIds) => loadA.migrated

\* a fraction between 0 and 1
InUnit(q) == 0 <= q[1] /\ q[1] <= q[2]
RectInUnit(r) == InUnit(r.x) /\ InUnit(r.y) /\ InUnit(r.w) /\ InUnit(r.h)
Normalized(ann) ==
    /\ InUnit(ann.anchor.yNorm)
    /\ \A k \in DOMAIN ann.highlights :
          \A j \in DOMAIN ann.highlights[k].rects : RectInUnit(ann.highlights[k].rects[j])

\* C19: every annotation held in the store has 0 <= anchor.yNorm <= 1 and
\* 0 <= x, y, w, h <= 1 for every highlight rectangle, whether it was
\* created from a selection or loaded from a sidecar.
C19_AnnotationsAreNormalized ==
    \A i \in DOMAIN annotations : Normalized(annotations[i])

\* the selection gives no anchor or no highlight rectangle
NothingToAnnotate(sel) ==
    getSelectionAnchor(sel) = NoAnchor \/ getSelectionHighlightRects(sel) = <<>>

\* C20: when the anchor computation or the highlight computation returns
\* nothing, no annotation is created: the in-memory list is unchanged and
\* nothing is written to the sidecar.
C20_NoAnnotationWithoutGeometry ==
    [][\A sel \in Selections :
          (NothingToAnnotate(sel) /\ CommentAction(sel))
             => UNCHANGED <<annotations, vaultOps, vault>>]_vars

\* ---------------------------------------------------------------------
\* C24: the render generation of a viewer never decreases; it increases by
\* exactly one in the step of an effective setScale, in the step in which
\* loadPdf is called on the viewer, and in the step of destroy(), and
\* changes in no other step.
\* ---------------------------------------------------------------------
EffectiveZoom(v) ==
    /\ Len(zooms') = Len(zooms) + 1
    /\ zooms'[Len(zooms')].v = v
    /\ ~zooms'[Len(zooms')].noop
LoadPdfCalled(v) == loadP[v].pc = "none" /\ loadP'[v].pc # "none"
Destroyed(v) == destroyedAt'[v] # destroyedAt[v]

C24_GenerationCountsZoomsAndLoads ==
    [][\A v \in Viewers :
          /\ renderGeneration'[v] >= renderGeneration[v]
          /\ (EffectiveZoom(v) \/ LoadPdfCalled(v) \/ Destroyed(v))
                => renderGeneration'[v] = renderGeneration[v] + 1
          /\ renderGeneration'[v] # renderGeneration[v]
                => (EffectiveZoom(v) \/ LoadPdfCalled(v) \/ Destroyed(v))]_vars

\* ---------------------------------------------------------------------
\* C25: the step of an effective setScale removes the preview transform,
\* increments the generation and empties the in-flight map, and no page
\* render of the new pass has started when the step ends (its workers are
\* at most waiting for getPage); at all times every task in the in-flight
\* map was started by a pass of the current generation.
\* ---------------------------------------------------------------------
TaskGeneration(task) == zooms[task[1]].gen

C25_SetScaleStartsFromCleanState ==
    /\ [][\A v \in Viewers :
             EffectiveZoom(v) =>
                /\ previewScale'[v] = 0
                /\ getScrollContainer(container) # 0
                      => transform'[getScrollContainer(container)] = NoTransform
                /\ renderGeneration'[v] = renderGeneration[v] + 1
                /\ inFlightRenderTasks'[v] = [p \in Pages |-> NoTask]
                /\ \A j \in Workers :
                      zooms'[Len(zooms')].w[j].pc \in {"idle", "getPage", "done"}]_vars
    /\ [](\A v \in Viewers, p \in Pages :
             inFlightRenderTasks[v][p] # NoTask =>
                /\ inFlightRenderTasks[v][p][1] \in DOMAIN zooms
                /\ zooms[inFlightRenderTasks[v][p][1]].v = v
                /\ TaskGeneration(inFlightRenderTasks[v][p]) = renderGeneration[v])

\* a second zoom has started while a page render of the first was running:
\* that render is still to settle, and is no longer in the in-flight map
C25_Witness ==
    \E k \in DOMAIN zooms, m \in DOMAIN zooms, j \in Workers :
       /\ m < k
       /\ zooms[k].ph = "visible"
       /\ zooms[k].gen = renderGeneration[zooms[k].v]
       /\ zooms[m].v = zooms[k].v
       /\ zooms[m].w[j].pc = "render"
       /\ inFlightRenderTasks[zooms[k].v] = [p \in Pages |-> NoTask]
       /\ transform[zooms[k].v] = NoTransform

\* ---------------------------------------------------------------------
\* C26: an effective setScale splits the laid-out pages into the pages of
\* the awaited phase and the pages of the background phase: the two sets
\* are disjoint and together they are all the pages, also when no page is
\* in view; so no pass of one generation gives a Page Slot a bitmap that
\* the same generation has given it before.
\* ---------------------------------------------------------------------
PassStarts == Len(zooms') = Len(zooms) + 1 /\ zooms'[Len(zooms')].ph = "visible"

C26_PhasesPartitionThePages ==
    [][ /\ PassStarts =>
              LET z == zooms'[Len(zooms')]
                  all == Range(getOrderedPageNumbersFromDom(container, scKids))
              IN /\ Range(z.pages) \cap Range(z.remaining) = {}
                 /\ Range(z.pages) \cup Range(z.remaining) = all
        /\ \A x \in DOMAIN els :
              \A n \in Range(Slots'[x].kids) \ Range(Slots[x].kids) :
                 n.t = "canvas" =>
                    ~\E o \in Range(Slots[x].kids) :
                         o.t = "canvas" /\ o.v = n.v /\ o.g = n.g ]_vars

\* ---------------------------------------------------------------------
\* C27: within one render generation the background phase is scheduled only
\* by the step in which the last visible-phase page render of that
\* generation ends, every page of the visible list having been handed out,
\* and only while the generation is still the current one; a page render of
\* a background pass starts only while its generation is the current one,
\* when no visible-phase pass of that or of a newer generation exists.
\* ---------------------------------------------------------------------
Busy(w) == w.pc \in {"getPage", "render", "textLayer"}

\* worker j of pass k enters renderPageIntoContainer for a page in this step
StartsPage(k, j) ==
    /\ k \in DOMAIN zooms'
    /\ zooms'[k].w[j].pc = "getPage"
    /\ (k \in DOMAIN zooms => zooms[k].w[j] # zooms'[k].w[j])

\* scheduleBackgroundRender is called for pass k in this step
BackgroundScheduled(k) ==
    /\ k \in DOMAIN zooms'
    /\ zooms'[k].ph = "bgScheduled"
    /\ (k \in DOMAIN zooms => zooms[k].ph = "visible")

C27_BackgroundAfterVisible ==
    [][\A k \in DOMAIN zooms' :
         LET z == zooms'[k] IN
         /\ BackgroundScheduled(k) =>
               /\ z.gen = renderGeneration'[z.v]
               /\ k \in DOMAIN zooms =>
                     /\ Cardinality({j \in Workers : Busy(zooms[k].w[j])}) <= 1
                     /\ zooms[k].idx >= Len(zooms[k].pages)
                     /\ ~AnyFailed(zooms[k])
         /\ (z.ph = "background" /\ k \in DOMAIN zooms /\ zooms[k].ph # "background") =>
               zooms[k].ph = "bgScheduled"
         /\ \A j \in Workers :
               (StartsPage(k, j) /\ z.ph = "background") =>
                  /\ z.gen = renderGeneration'[z.v]
                  /\ ~\E m \in DOMAIN zooms' :
                        /\ zooms'[m].v = z.v
                        /\ zooms'[m].gen >= z.gen
                        /\ zooms'[m].ph = "visible"
      ]_vars

\* a background page render in progress on a slot whose bitmap the visible
\* phase of the same generation has put in
C27_Witness ==
    \E k \in DOMAIN zooms, j \in Workers :
       /\ zooms[k].ph = "background"
       /\ zooms[k].w[j].pc = "render"
       /\ zooms[k].gen = renderGeneration[zooms[k].v]
       /\ \E x \in Attached : \E n \in Range(els[x].kids) :
             n.t = "canvas" /\ n.k = "visible" /\ n.g = zooms[k].gen /\ n.v = zooms[k].v

\* ---------------------------------------------------------------------
\* C28: in a render pass at most 2 page renders are in progress at any
\* time, and no two of them are of the same page or of the same position of
\* the list; the list is in ascending page-number order and a worker that
\* takes a page takes the one at a position the shared cursor had not yet
\* passed, the cursor moving past it; a worker whose generation is no longer
\* the current one takes no page.
\* ---------------------------------------------------------------------
InProgress(k) == {j \in Workers : Busy(zooms[k].w[j])}

Ascending(s) == \A a, b \in DOMAIN s : a < b => s[a] < s[b]

\* the cursor of pass k before this step (0 when the pass starts in it)
CursorBefore(k) ==
    IF k \in DOMAIN zooms /\ zooms[k].ph = zooms'[k].ph THEN zooms[k].idx ELSE 0

C28_WorkerPoolDiscipline ==
    /\ [](\A k \in DOMAIN zooms :
            zooms[k].ph \in {"visible", "background"} =>
               /\ Cardinality(InProgress(k)) <= 2
               /\ Cardinality({p \in DOMAIN inFlightRenderTasks[zooms[k].v] :
                     /\ inFlightRenderTasks[zooms[k].v][p] # NoTask
                     /\ inFlightRenderTasks[zooms[k].v][p][1] = k}) <= 2
               /\ Ascending(zooms[k].pages)
               /\ \A i, j \in InProgress(k) :
                     i # j => /\ zooms[k].w[i].page # zooms[k].w[j].page
                              /\ zooms[k].w[i].task # zooms[k].w[j].task)
    /\ [][\A k \in DOMAIN zooms' : \A j \in Workers :
            (StartsPage(k, j) /\ zooms'[k].ph \in {"visible", "background"}) =>
               LET z == zooms'[k]
                   at == z.w[j].task[3]
               IN /\ at > CursorBefore(k)
                  /\ at <= z.idx
                  /\ z.w[j].page = z.pages[at]
                  /\ z.gen = renderGeneration'[z.v]
                  /\ \A i \in Workers :
                        (i # j /\ Busy(z.w[i])) => z.w[i].task[3] # at
      ]_vars

\* a pass of more pages than workers: two page renders are in progress, one
\* of them of the third page of the list, and a page is still to be taken
C28_Witness ==
    \E k \in DOMAIN zooms :
       /\ Len(zooms[k].pages) > 3
       /\ zooms[k].idx = 3
       /\ Cardinality(InProgress(k)) = 2
       /\ \E j \in Workers : zooms[k].w[j].task[3] = 3 /\ zooms[k].w[j].pc = "render"

\* ---------------------------------------------------------------------
\* C29: a Page Slot never holds the bitmap of one render together with the
\* text overlay of another render, and a step of a per-page render that
\* puts a bitmap into a slot puts the text overlay of the same render into
\* it as well.
\* ---------------------------------------------------------------------
SameRender(a, b) == a.v = b.v /\ a.g = b.g /\ a.k = b.k /\ a.s = b.s

C29_BitmapAndOverlaySwapTogether ==
    /\ [](\A x \in Attached : \A a, b \in Range(els[x].kids) :
             (a.t = "canvas" /\ b.t = "text") => SameRender(a, b))
    /\ [][\A x \in DOMAIN els :
            \A a \in Range(els'[x].kids) \ Range(els[x].kids) :
               a.t = "canvas" =>
                  \E b \in Range(els'[x].kids) \ Range(els[x].kids) :
                     b.t = "text" /\ SameRender(a, b)]_vars

\* ---------------------------------------------------------------------
\* C30: no step of a per-page render takes the highlight layer out of a
\* Page Slot, and in the state after a step in which a per-page render has
\* put a bitmap or a text overlay into a slot, every highlight layer of the
\* slot comes after that bitmap or overlay.
\* ---------------------------------------------------------------------
PositionsOf(kids, n) == {i \in DOMAIN kids : kids[i] = n}
HlPositions(kids) == {i \in DOMAIN kids : kids[i].t = "hl"}

\* the layers a per-page render of a pass puts into slot x in this step
SwappedIn(x) ==
    {n \in Range(els'[x].kids) \ Range(els[x].kids) :
        IsLayer(n) /\ n.k \in {"visible", "background"}}

C30_HighlightLayerStaysOnTop ==
    [][\A x \in DOMAIN els :
         /\ (SwappedIn(x) # {} /\ HasHl(els[x])) => HasHl(els'[x])
         /\ \A n \in SwappedIn(x) :
               \A i \in PositionsOf(els'[x].kids, n), h \in HlPositions(els'[x].kids) :
                  i < h
      ]_vars

\* ---------------------------------------------------------------------
\* C21: renderCommentMarkers leaves exactly one marker for each annotation
\* whose anchor page has a Page Slot in the document, at
\* slot.top + yNorm * slot.height of the slot's box at that moment, and no
\* marker for an annotation whose page has no slot; no zoom step changes a
\* stored yNorm.  Checked for the function on every reachable state and for
\* the track after every step that changes it.
\* ---------------------------------------------------------------------
SlotsOfPage(cont, sck, p) == {x \in Range(AttachedEls(cont, sck)) : PageOf(x) = p}

\* top = slotTop + yNorm * slotHeight, on exact fractions
AtAnchor(top, slotTop, yNorm, slotHeight) ==
    top[1] * yNorm[2] = (slotTop * yNorm[2] + yNorm[1] * slotHeight) * top[2]

MarkersMatch(ms, cont, sck, e, anns) ==
    LET shown == {i \in DOMAIN anns : SlotsOfPage(cont, sck, anns[i].anchor.pageNumber) # {}}
    IN /\ Len(ms) = Cardinality(shown)
       /\ \A i \in shown :
             Cardinality({m \in DOMAIN ms : ms[m].annotationId = anns[i].id}) = 1
       /\ \A m \in DOMAIN ms :
             \E i \in shown :
                /\ anns[i].id = ms[m].annotationId
                /\ \E x \in SlotsOfPage(cont, sck, anns[i].anchor.pageNumber) :
                      AtAnchor(ms[m].top, offsetTop(cont, sck, e, x),
                               anns[i].anchor.yNorm, offsetHeight(e[x]))

C21_MarkersAtNormalizedAnchor ==
    /\ [](MarkersMatch(renderCommentMarkers(container, scKids, els, annotations,
                                            selectedAnnotationId),
                       container, scKids, els, annotations))
    /\ [][ /\ commentsTrack' # commentsTrack =>
                MarkersMatch(commentsTrack', container', scKids', els', annotations')
           /\ \A i \in DOMAIN annotations :
                 /\ i \in DOMAIN annotations'
                 /\ annotations'[i].anchor = annotations[i].anchor ]_vars

\* after a zoom change that has run to its end: a marker that is no longer
\* where the initial scale would put it, and an annotation without marker
C21_Witness ==
    /\ zooms # <<>>
    /\ zooms[1].ph = "done"
    /\ zooms[1].out.res = "completed"
    /\ MarkersMatch(commentsTrack, container, scKids, els, annotations)
    /\ Len(commentsTrack) < Len(annotations)
    /\ \E m \in DOMAIN commentsTrack :
          commentsTrack[m].top #
             renderCommentMarkers(container, scKids,
                 [x \in DOMAIN els |-> ReadySlot(PageOf(x), InitialScale)],
                 annotations, selectedAnnotationId)[m].top

\* ---------------------------------------------------------------------
\* C22: renderHighlights and renderCommentMarkers called a second time on
\* what the first call left, with the same annotations, change nothing;
\* after renderHighlights every Page Slot of the document has exactly one
\* highlight layer and the layers hold as many rectangles as the highlights
\* of the annotations have on pages with a slot; the track holds as many
\* markers as there are annotations on pages with a slot.  Checked for the
\* functions on every reachable state, and for the document after every
\* step that has drawn.
\* ---------------------------------------------------------------------
RECURSIVE RectsToDraw(_, _, _)
RectsToDraw(prs, cont, sck) ==
    IF prs = <<>> THEN 0
    ELSE (IF SlotsOfPage(cont, sck, Head(prs).pageNumber) # {} THEN Len(Head(prs).rects)
          ELSE 0) + RectsToDraw(Tail(prs), cont, sck)

RECURSIVE RectsDrawn(_, _)
RectsDrawn(att, e) ==
    IF att = <<>> THEN 0 ELSE Len(e[Head(att)].rects) + RectsDrawn(Tail(att), e)

OneLayerEach(cont, sck, e, anns) ==
    /\ \A x \in Range(AttachedEls(cont, sck)) : Cardinality(HlPositions(e[x].kids)) = 1
    /\ RectsDrawn(AttachedEls(cont, sck), e) = RectsToDraw(HighlightsOf(anns), cont, sck)

MarkerPerAnnotation(ms, cont, sck, anns) ==
    Len(ms) = Cardinality({i \in DOMAIN anns :
                              SlotsOfPage(cont, sck, anns[i].anchor.pageNumber) # {}})

C22_RendersAreIdempotent ==
    /\ [](LET once == renderHighlights(container, scKids, els, annotations)
              twice == renderHighlights(container, scKids, once, annotations)
              ms == renderCommentMarkers(container, scKids, once, annotations,
                                         selectedAnnotationId)
          IN /\ twice = once
             /\ renderCommentMarkers(container, scKids, twice, annotations,
                                     selectedAnnotationId) = ms
             /\ OneLayerEach(container, scKids, once, annotations)
             /\ MarkerPerAnnotation(ms, container, scKids, annotations))
    /\ [][ /\ (\E x \in DOMAIN els :
                  \/ els'[x].rects # els[x].rects
                  \/ HasHl(els'[x]) # HasHl(els[x])) =>
                OneLayerEach(container', scKids', els', annotations')
           /\ commentsTrack' # commentsTrack =>
                MarkerPerAnnotation(commentsTrack', container', scKids', annotations')
           /\ \A x \in DOMAIN els : Cardinality(HlPositions(els'[x].kids)) <= 1 ]_vars

\* a slot whose layer has been drawn again over rectangles it already held:
\* after the zoom change the layer holds as many as before
C22_Witness ==
    /\ zooms # <<>>
    /\ zooms[1].ph = "done"
    /\ annotations # <<>>
    /\ \E x \in Attached : Len(els[x].rects) > 0
    /\ OneLayerEach(container, scKids, els, annotations)
    /\ Len(commentsTrack) > 0

\* ---------------------------------------------------------------------
\* C23: a step in which the markers or the highlight layers are drawn, in
\* which setScale is called or one of its page renders goes on, or in which
\* the preview transform is set or cleared, leaves the annotation list and
\* the sidecar as they were and makes no vault call.
\* ---------------------------------------------------------------------
Draws ==
    \/ commentsTrack' # commentsTrack
    \/ \E x \in DOMAIN els : els'[x].rects # els[x].rects \/ HasHl(els'[x]) # HasHl(els[x])
Zooms == zooms' # zooms
Previews == previewScale' # previewScale \/ transform' # transform

C23_PresentationAndZoomReadOnly ==
    [][(Draws \/ Zooms \/ Previews) =>
          /\ annotations' = annotations
          /\ vault' = vault
          /\ vaultOps' = vaultOps]_vars

\* after a zoom change and under a preview: the boxes and the markers are
\* those of another scale than the initial one, the list is the stored one
C23_Witness ==
    /\ zooms # <<>>
    /\ zooms[1].ph = "done"
    /\ ~zooms[1].noop
    /\ pdfViewer # 0
    /\ previewScale[pdfViewer] # 0
    /\ annotations = <<StoredAnn(1)>>
    /\ commentsTrack # <<>>
    /\ \E x \in Attached : els[x].rects # <<>> /\ els[x].h # Viewport(PageOf(x), InitialScale).height

\* ---------------------------------------------------------------------
\* C31: when the render task of one page never settles and everything else
\* has run as far as it can without it (no other page render in progress,
\* no background pass waiting for its timer, no step failed, the view open,
\* the generation still current), every other Page Slot of the viewer shows
\* its page at the current scale and the zoom buttons are enabled.  (A run
\* that rests in such a state is fair to every step but the hung one, so
\* what is missing there is never reached.)
\* ---------------------------------------------------------------------
OnlyWaitsFor(k, j) ==
    /\ zooms[k].ph \in {"visible", "background"}
    /\ zooms[k].w[j].pc = "render"
    /\ zooms[k].gen = renderGeneration[zooms[k].v]
    /\ \A m \in DOMAIN zooms :
          /\ zooms[m].ph # "bgScheduled"
          /\ \A i \in Workers : (<<m, i>> # <<k, j>>) => ~Busy(zooms[m].w[i])
    /\ nFail = 0
    /\ ~closed

C31_HungRenderBlocksOnlyItsSlot ==
    \A k \in DOMAIN zooms : \A j \in Workers :
       OnlyWaitsFor(k, j) =>
          /\ zoomEnabled
          /\ \A x \in Attached :
                (x[1] = zooms[k].v /\ PageOf(x) # zooms[k].w[j].page) =>
                   RenderedAt(x, currentScale[zooms[k].v])

\* a sidecar file that line 850 accepts for document d
ValidFor(f, d) == f.kind = "json" /\ SidecarKind(f, d) = "valid"

IdsOf(anns) == {anns[i].id : i \in DOMAIN anns}

\* C32: as long as the sidecar of the open document is valid, no
\* annotation that it holds is dropped by a write to it, and the load that
\* returns hands out every annotation the sidecar held when the session
\* began, also when the creation of the notes folder or of a backing note
\* has failed during that load.
C32_PersistedAnnotationsKept ==
    [][/\ (ValidFor(vault.sidecar, currentPdfPath) /\ ValidFor(vault.sidecar', currentPdfPath))
             => IdsOf(vault.sidecar.annotations) \subseteq IdsOf(vault.sidecar'.annotations)
       /\ (loadA.pc # "done" /\ loadA'.pc = "done" /\ ValidFor(vault.sidecar', currentPdfPath))
             => (IdsOf(vault.sidecar'.annotations) \ CommentIds) \subseteq IdsOf(annotations')
      ]_vars

\* C33: a sidecar write made by a note-creation closure addresses the
\* sidecar of the document that was open when the closure was started, and
\* when it settles the sidecars of the other documents are as they were.
C33_WritesStayWithTheirDocument ==
    /\ [](\A k \in DOMAIN vaultOps :
             (vaultOps[k].op = "writeSidecar" /\ vaultOps[k].who[1] = "note")
                => vaultOps[k].path = noteJob[vaultOps[k].who[2]][vaultOps[k].who[3]].doc)
    /\ [][\A a \in CommentIds, o \in Origins :
             (NoteSaveDone(a, o) /\ noteJob[a][o].doc = 1)
                => vault'.others = vault.others]_vars

\* the last load request was refused because its path names no PDF file,
\* and document 1 is the one on screen
RejectedLast ==
    /\ \E i \in Viewers : loadH[i] = "notPdf" /\ \A j \in Viewers : j > i => loadH[j] = "idle"
    /\ \A i \in Viewers : loadH[i] # "readBinary"

\* C35: a click on the load button with a path that names no PDF file
\* leaves the current document path, the annotation list and the selection
\* as they were, and an annotation created after it is written to the
\* sidecar of the document on screen (document 1).
C35_RejectedLoadKeepsSession ==
    /\ [][\A i \in Viewers :
             LoadClickNotPdf(i)
                => UNCHANGED <<currentPdfPath, annotations, selectedAnnotationId>>]_vars
    /\ [][\A sel \in Selections :
             (RejectedLast /\ CommentAction(sel) /\ vaultOps' # vaultOps)
                => vaultOps'[Len(vaultOps')].path = 1]_vars

\* handler i ends in this step (success message, or catch) while the
\* handler of a later click j is still running
EndsSuperseded(i, j) ==
    /\ i < j
    /\ loadH[i] \notin HandlerOver \cup {"idle"}
    /\ loadH'[i] \in HandlerOver
    /\ loadH[j] \notin HandlerOver \cup {"idle"}

\* C34: when the handler of an earlier click ends, with success or with a
\* failure, while the handler of a later click is still running, the step
\* neither destroys nor drops the viewer of the later handler, leaves the
\* loading flag set and the zoom buttons disabled, and leaves the
\* annotation list as it was.
C34_SupersededLoadIsInert ==
    [][\A i, j \in Viewers :
          EndsSuperseded(i, j) =>
             /\ (pdfViewer = j => pdfViewer' = j)
             /\ destroyedAt'[j] = destroyedAt[j]
             /\ isLoadingPdf' /\ ~zoomEnabled'
             /\ annotations' = annotations]_vars

\* header block, one blank line, a block of quote lines, one blank line,
\* then the comment body
HasLayout(text) ==
    LET ls == Split(text)
    IN \E h, q \in 1..Len(ls) :
          /\ ls[1] = Dashes
          /\ h > 1 /\ ls[h] = Dashes
          /\ \A i \in 2..(h - 1) : ls[i] # Dashes
          /\ ls[h + 1] = <<>>
          /\ q >= h + 2
          /\ \A i \in (h + 2)..q : StartsWith(ls[i], <<">">>)
          /\ q + 2 <= Len(ls)
          /\ ls[q + 1] = <<>>
          /\ ~StartsWith(ls[q + 2], <<">">>)

\* C36: a note as createCommentNote writes it has the layout header block,
\* blank line, blockquote, blank line, comment body; a note that has the
\* layout and is loaded into the inline editor is written back by doSave
\* with the layout, and when nothing was typed the text written back is
\* the text of the note.
C36_NoteLayoutIsKept ==
    /\ [](\A t \in SelectedTexts, c \in CommentTexts : HasLayout(NoteContent(t, c)))
    /\ [][(EditorSave /\ textarea.loaded /\ HasLayout(noteFile))
             => /\ HasLayout(textarea'.next)
                /\ ~textarea.dirty => textarea'.next = noteFile]_vars

\* a line of blanks only; a line whose first character that is no blank is
\* '>', and that line from its '>' on
BlankLine(l) == \A i \in DOMAIN l : l[i] = " "
QuoteLine(l) == \E k \in DOMAIN l : l[k] = ">" /\ \A i \in 1..(k - 1) : l[i] = " "
FromMark(l) == SubSeq(l, CHOOSE k \in DOMAIN l : l[k] = ">" /\ \A i \in 1..(k - 1) : l[i] = " ",
                      Len(l))

\* r is the split of body that takes the leading blank lines, then the
\* longest run of quote lines, then the blank lines that follow
SplitsAs(body, r) ==
    LET ls == Split(body)
        n == Len(ls)
    IN \E i1, i2, i3 \in 1..(n + 1) :
          /\ i1 <= i2 /\ i2 <= i3
          /\ \A i \in 1..(i1 - 1) : BlankLine(ls[i])
          /\ i1 <= n => ~BlankLine(ls[i1])
          /\ \A i \in i1..(i2 - 1) : QuoteLine(ls[i])
          /\ i2 <= n => ~QuoteLine(ls[i2])
          /\ \A i \in i2..(i3 - 1) : BlankLine(ls[i])
          /\ i3 <= n => ~BlankLine(ls[i3])
          /\ IF i1 = i2 THEN r.quoteBlock = <<>>
             ELSE Split(r.quoteBlock) =
                     [k \in 1..(i2 - i1) |-> FromMark(ls[i1 + k - 1])] \o <<<<>>, <<>>>>
          /\ IF i3 > n THEN r.commentBody = <<>>
             ELSE Split(r.commentBody) = SubSeq(ls, i3, n)

\* C37: splitLeadingQuote consumes the leading blank lines of a note body,
\* takes the longest run of lines of optional blanks and '>' as the quote
\* block, each from its '>' on, skips the blank lines after it and returns
\* the rest as the comment body; of the body '> a', '> b', '> c', blank
\* line, free text it returns exactly the three quote lines and the free
\* text.  The inline editor holds the quote block of the note it has read.
C37_SplitIsLineOriented ==
    LET body == stripFrontmatter(noteFile).body
    IN /\ SplitsAs(body, splitLeadingQuote(body))
       /\ splitLeadingQuote(QuotedNote) =
             [quoteBlock |-> ThreeLineQuote \o <<NL, NL>>, commentBody |-> <<"x", " ", "y">>]
       /\ textarea.loaded =>
             SplitsAs(body, [quoteBlock |-> textarea.quote,
                             commentBody |-> splitLeadingQuote(body).commentBody])

\* the editor has read the note of three quote lines and free text
C37_Witness ==
    /\ textarea.loaded
    /\ noteFile = Frontmatter \o QuotedNote
    /\ textarea.quote = ThreeLineQuote \o <<NL, NL>>
    /\ textarea.value = <<"x", " ", "y">>

\* the candidates of the same document that come before candidate c
EarlierCandidates(c) ==
    {b \in Folders : b < c /\ (b - 1) \div MaxCandidates = (c - 1) \div MaxCandidates}

\* C38: when ensurePerPdfFolder returns, the path it returns (recorded as
\* the notes folder of the session) is a folder, it was no file when the
\* step began, and every earlier candidate of the document is occupied by
\* a file; the recorded folder remains a folder.
C38_FirstUsableCandidate ==
    /\ [](currentPdfCommentsFolder # 0 => vault.paths[currentPdfCommentsFolder] = "folder")
    /\ [][(currentPdfCommentsFolder' # currentPdfCommentsFolder /\ currentPdfCommentsFolder' # 0)
             => /\ vault.paths[currentPdfCommentsFolder'] # "file"
                /\ vault'.paths[currentPdfCommentsFolder'] = "folder"
                /\ \A b \in EarlierCandidates(currentPdfCommentsFolder') :
                      vault.paths[b] = "file"]_vars

\* the base name is taken by a file: the load has created base_1
C38_Witness ==
    /\ loadA.pc = "done"
    /\ ~loadA.caught
    /\ vault.paths[1] = "file"
    /\ currentPdfCommentsFolder = 2
    /\ vault.paths[2] = "folder"

\* the step calls vault.create for a note
CallsCreate ==
    /\ vaultOps' # <<>>
    /\ vaultOps' # vaultOps
    /\ vaultOps # <<>> => vaultOps' # Tail(vaultOps)
    /\ vaultOps'[Len(vaultOps')].op = "createNote"

\* C39: vault.create is never called for a note path at which a file
\* exists, and a note whose content the user has written keeps it: no step
\* other than a save of the inline editor writes to it.  A note found at
\* the path of an annotation without notePath is linked as it is.
C39_ExistingNotesAreKept ==
    /\ [][CallsCreate => vaultOps'[Len(vaultOps')].path \notin vault'.notes]_vars
    /\ [][vault.edited \subseteq vault'.edited]_vars
    /\ [](\A i \in DOMAIN annotations :
             annotations[i].notePath # NoPath => annotations[i].notePath \in vault.notes)

\* a migration has linked annotation 11 to the note that was there, with
\* what the user wrote in it, and has created the note of annotation 12
C39_Witness ==
    /\ loadA.pc = "done"
    /\ loadA.migrated
    /\ ~loadA.caught
    /\ \E i \in DOMAIN annotations :
          annotations[i].id = 11 /\ annotations[i].notePath = NotePathOf(1, 11)
    /\ NotePathOf(1, 11) \in vault.edited
    /\ NotePathOf(1, 12) \in vault.notes \ vault.edited

====
